---- MODULE Spec2Model ----
(***************************************************************************)
(* Pattern lifecycle manager of ci-failure-analyzer                        *)
(* (src/lib/pattern-tracker.js): upsertIssueForSignature and               *)
(* autoCloseQuietIssues running against an issue-tracker store.            *)
(*                                                                         *)
(* Every store round-trip (search, get, create, update, comment, label     *)
(* call) is one atomic step of the run that makes it, so two overlapping   *)
(* runs interleave exactly at the awaits of the source.                    *)
(*                                                                         *)
(* Text is modelled by its structure:                                      *)
(*  - a title is the sequence of its characters (tuples of 1-char strings) *)
(*    so that slice(0, 8) and the substring match of the search are real;  *)
(*  - a body is its stats line, its "## Occurrences" heading and the list  *)
(*    of its occurrence bullets, newest first; a bullet is plain           *)
(*    ("- <timestamp> ...") or muted ("- [muted] <timestamp> ...");        *)
(*  - instants are integer ticks, TicksPerDay ticks to a day.              *)
(***************************************************************************)
EXTENDS Integers, Sequences, FiniteSets, TLC

VARIABLES
    store,    \* the issue tracker: record number -> record
    now,      \* the clock, in ticks
    run,      \* per run: position and locals of the operation in progress
    res,      \* per run: what its last completed operation returned
    hist,     \* history, per signature: the successful upserts so far, how
              \* many of them returned thresholdReached, and what the last
              \* operation on its records was
    used,     \* how much of each bound has been used
    conf,     \* the inputs of the action: notifyThreshold, quietDays
    mode,     \* "seq": operations never overlap; "overlap": runs interleave;
              \* "run": the operations are those of one execution of run()
    main      \* per run: where run() is in its list of failed jobs

vars == <<store, now, run, res, hist, used, conf, mode, main>>

----------------------------------------------------------------------------
(* Bounds of the model                                                     *)

TicksPerDay == 2
MaxOps == 3
MaxTicks == 2
MaxMutes == 1
MaxFails == 1
MaxRecent == 6
MaxJobs == 2
MaxLineIndex == 3
MaxLines == 2
MaxLead == 3
MaxTrail == 13
MaxCustom == 1
MaxEntries == 2
MaxSegments == 3

Runs == {"r1", "r2"}

----------------------------------------------------------------------------
(* Program constants                                                       *)

HashPrefixLen == 8
TitleSigLen == 120
UpsertPerPage == 10
SweepPerPage == 50
HighRecentCount == 5
Window7 == 7
Window14 == 14

TrackLabel == "ci-failure-pattern"
MutedLabel == "muted"
ThresholdLabel == "threshold-reached"
SeverityLabels == {"severity:low", "severity:medium", "severity:high"}

\* the order in which the store lists the severity labels of a record
SeverityOrder == <<"severity:high", "severity:low", "severity:medium">>

SeverityLabel(sev) ==
    CASE sev = "low" -> "severity:low"
      [] sev = "medium" -> "severity:medium"
      [] sev = "high" -> "severity:high"

----------------------------------------------------------------------------
(* Signatures and fingerprints                                             *)

SigESLint == <<"E","S","L","i","n","t",":"," ","F","o","o">>
SigDocker == <<"D","o","c","k","e","r",":"," ","B","a","r">>

Signatures == {SigESLint, SigDocker}

RuleOf(sig) == IF sig = SigESLint THEN "ESLint" ELSE "Docker"

\* sha1(signature), hex: the digests of the two signatures above.
sha1(sig) ==
    IF sig = SigESLint
    THEN <<"5","e","7","4","b","2","4","1","c","1","6","d","a","5","4","0",
           "d","7","e","f","f","4","8","d","e","8","9","e","5","6","5","4",
           "c","7","4","7","3","f","5","9">>
    ELSE <<"4","2","0","3","5","8","5","b","4","a","8","b","d","0","6","3",
           "b","9","8","f","c","b","a","4","7","0","3","2","2","c","7","3",
           "0","6","f","d","3","b","b","2">>

Min(a, b) == IF a <= b THEN a ELSE b
Max(a, b) == IF a >= b THEN a ELSE b

\* String.prototype.slice(0, n)
Slice(s, n) == SubSeq(s, 1, Min(n, Len(s)))

\* needle occurs in hay as a contiguous substring
Includes(hay, needle) ==
    \E i \in 0..(Len(hay) - Len(needle)) :
        SubSeq(hay, i + 1, i + Len(needle)) = needle

\* title built by upsertIssueForSignature
IssueTitle(signatureHash, signature) ==
    <<"[CI Pattern ">> \o Slice(signatureHash, HashPrefixLen) \o <<"] ">>
        \o Slice(signature, TitleSigLen)

\* title of a record filed under the tracking label with the whole
\* fingerprint in it (the form the upsert's search query looks for)
FullHashTitle(signatureHash, signature) ==
    <<"[CI Pattern ">> \o signatureHash \o <<"] ">> \o signature

\* the fingerprints whose 8-character tag a title carries
TitleSignatures(title) ==
    {s \in Signatures : Includes(title, Slice(sha1(s), HashPrefixLen))}

----------------------------------------------------------------------------
(* Record bodies                                                           *)

NoStats == <<>>

\* bullet written by the upsert: occLine, or the "[muted]" form of it
OccLine(occurrence, muted) ==
    [when |-> occurrence.when, runUrl |-> occurrence.runUrl, muted |-> muted]

\* /^- (\d{4}-\d{2}-\d{2}T...Z)/gm: the timestamp must follow "- " directly,
\* so a "- [muted] <timestamp>" bullet yields no match
LineMatches(line) == ~line.muted

RECURSIVE MatchedTimestamps(_)
MatchedTimestamps(lines) ==
    IF lines = <<>> THEN <<>>
    ELSE IF LineMatches(Head(lines))
         THEN <<Head(lines).when>> \o MatchedTimestamps(Tail(lines))
         ELSE MatchedTimestamps(Tail(lines))

parseOccurrenceTimestamps(body) == MatchedTimestamps(body.occ)

RECURSIVE CountFrom(_, _)
CountFrom(timestamps, from) ==
    IF timestamps = <<>> THEN 0
    ELSE (IF Head(timestamps) >= from THEN 1 ELSE 0)
             + CountFrom(Tail(timestamps), from)

computeWindowStats(timestamps, at) ==
    [last7 |-> CountFrom(timestamps, at - Window7 * TicksPerDay),
     last14 |-> CountFrom(timestamps, at - Window14 * TicksPerDay)]

\* BASE_SEVERITY is an object literal: besides its own keys, a lookup finds
\* the members it inherits from Object.prototype, which are functions (an
\* object for "__proto__"); any other key gives undefined
BaseSeverityKeys ==
    {"Docker", "npm", "Build", "TypeScript", "Jest/Vitest", "Node", "ESLint",
     "Generic"}

ObjectPrototypeKeys ==
    {"constructor", "toString", "toLocaleString", "valueOf", "hasOwnProperty",
     "isPrototypeOf", "propertyIsEnumerable", "__proto__"}

Undefined == "undefined"
InheritedMember == "[Object.prototype member]"

\* BASE_SEVERITY[ruleName]
BASE_SEVERITY(ruleName) ==
    CASE ruleName \in {"Docker", "npm", "Build", "Node"} -> "high"
      [] ruleName \in {"TypeScript", "Jest/Vitest"} -> "medium"
      [] ruleName \in {"ESLint", "Generic"} -> "low"
      [] ruleName \in ObjectPrototypeKeys -> InheritedMember
      [] OTHER -> Undefined

\* classifySeverity with the escalation starting above HighRecentCount
classifySeverity_Above(ruleName, stats7d) ==
    LET base == IF BASE_SEVERITY(ruleName) = Undefined THEN "low"
                ELSE BASE_SEVERITY(ruleName)
    IN  IF stats7d > HighRecentCount THEN "high" ELSE base

classifySeverity(ruleName, stats7d) ==
    LET base == IF BASE_SEVERITY(ruleName) = Undefined THEN "low"
                ELSE BASE_SEVERITY(ruleName)
    IN  IF stats7d >= HighRecentCount THEN "high" ELSE base

\* replaces the stats line in place, else puts it above the heading
appendStatsLine(body, stats) ==
    IF body.stats # NoStats \/ body.heading
    THEN [body EXCEPT !.stats = <<stats.last7, stats.last14>>]
    ELSE body

\* InsertOccurrence replacing the list under the heading by the new bullet
InsertOccurrence_Replacing(body, line) ==
    [body EXCEPT !.heading = TRUE, !.occ = <<line>>]

\* the body edit of the update path: make sure the heading is there, then
\* put the new bullet directly under it, above the bullets already there
InsertOccurrence(body, line) ==
    [body EXCEPT !.heading = TRUE, !.occ = <<line>> \o body.occ]

\* NewBody without the occurrence under the heading
NewBody_Empty(occurrence) ==
    [stats |-> NoStats, heading |-> TRUE, occ |-> <<>>]

\* body of a record the upsert creates
NewBody(occurrence) ==
    [stats |-> NoStats, heading |-> TRUE, occ |-> <<OccLine(occurrence, FALSE)>>]

\* timestamps.reduce((a, b) => (a > b ? a : b))
RECURSIVE MaxOf(_)
MaxOf(timestamps) ==
    IF Len(timestamps) = 1 THEN timestamps[1]
    ELSE LET m == MaxOf(Tail(timestamps))
         IN  IF Head(timestamps) > m THEN Head(timestamps) ELSE m

\* the sweep leaves a record alone: nothing parsable, or seen since the cutoff
SweepSkips(timestamps, cutoff) ==
    timestamps = <<>> \/ MaxOf(timestamps) >= cutoff

\* Math.floor((Date.now() - lastSeen.getTime()) / 86400000)
DaysSince(at, lastSeen) == (at - lastSeen) \div TicksPerDay

----------------------------------------------------------------------------
(* The store                                                               *)

Numbers == DOMAIN store

RECURSIVE Ascending(_)
Ascending(S) ==
    IF S = {} THEN <<>>
    ELSE LET m == CHOOSE x \in S : \A y \in S : x <= y
         IN  <<m>> \o Ascending(S \ {m})

\* The store ranks the matches of a query and a call sees the first page
\* of them. The ranking is the store's own: a page is any perPage of the
\* matches (all of them when they fit), and any item of it may come first.
\* the subsets of k numbers of S
RECURSIVE Subsets(_, _)
Subsets(S, k) ==
    IF k = 0 THEN {{}}
    ELSE UNION {{{x} \cup T : T \in Subsets({y \in S : y > x}, k - 1)} : x \in S}

\* the pages differ in the matches that did not fit
Pages(S, perPage) ==
    {S \ X : X \in Subsets(S, Cardinality(S) - Min(perPage, Cardinality(S)))}

\* is:issue in:title "<needle>" label:<label> [is:open | is:closed]
SearchIssues(needle, state) ==
    {n \in Numbers :
        /\ TrackLabel \in store[n].labels
        /\ Includes(store[n].title, needle)
        /\ state \in {"any", store[n].state}}

\* item of a search result: the record as the search call saw it
Item(n) == [number |-> n, state |-> store[n].state, labels |-> store[n].labels]

----------------------------------------------------------------------------
(* Runs                                                                    *)

NoItem == [number |-> 0, state |-> "none", labels |-> {}]
NoBody == [stats |-> NoStats, heading |-> FALSE, occ |-> <<>>]
NoRes == [op |-> "none"]

Idle ==
    [pc |-> "idle",
     \* upsertIssueForSignature
     signature |-> <<>>, signatureHash |-> <<>>, ruleName |-> "",
     notifyThreshold |-> 0, occurrence |-> [when |-> 0, runUrl |-> ""],
     found |-> NoItem, muted |-> FALSE, wasClosed |-> FALSE,
     newBody |-> NoBody, totalOccurrences |-> 0, last7 |-> 0,
     severity |-> "", stale |-> <<>>, alreadyApplied |-> FALSE,
     \* autoCloseQuietIssues
     quietDays |-> 0, items |-> <<>>, idx |-> 0, cutoff |-> 0,
     daysSince |-> 0, fixing |-> FALSE, closed |-> <<>>,
     \* history: what the store held when the operation started, and
     \* whether the operation has posted the recurrence comment
     preAll |-> {}, preOpen |-> {}, annotated |-> FALSE]

Thresholds == {0, 1, 2}

\* a failed job of the run: the signature of its first error, or NoHit when
\* its log could not be had or shows no error the rules know
NoHit == <<>>
Jobs == Signatures \cup {NoHit}

RECURSIVE ListsUpTo(_, _)
ListsUpTo(S, n) ==
    IF n = 0 THEN {<<>>}
    ELSE ListsUpTo(S, n - 1)
             \cup {Append(l, x) : l \in {k \in ListsUpTo(S, n - 1) : Len(k) = n - 1},
                                  x \in S}

JobLists == ListsUpTo(Jobs, MaxJobs)
QuietChoices == {0, 1}
TickJumps == {TicksPerDay}

AllIdle == \A p \in Runs : run[p].pc = "idle"

\* MayStart of a run() that does not await the call it made before
MayStart_NoAwait(p) ==
    /\ used.ops < MaxOps
    /\ mode = "seq" => p = "r1"
    /\ mode = "overlap" => res[p] = NoRes
    /\ mode = "run" => main[p].pc = "jobs"

\* in mode "seq" one run, r1, does one operation after the other; in mode
\* "overlap" two runs do one operation each, at the same time
MayStart(p) ==
    /\ run[p].pc = "idle"
    /\ used.ops < MaxOps
    /\ mode = "seq" => p = "r1"
    /\ mode = "overlap" => res[p] = NoRes
    /\ mode = "run" => main[p].pc = "jobs"

\* the records that carry the tag of a signature in their title
RecordsOf(sig) == {n \in Numbers : sig \in TitleSignatures(store[n].title)}

Goto(p, locals) ==
    /\ run' = [run EXCEPT ![p] = locals]
    /\ UNCHANGED <<res, hist, main>>

\* run(): the catch around the upsert of a job warns, and the loop goes on
\* with the next job; but here the error leaves run() through its outer
\* catch, which marks the run failed
CatchUpsertError_Rethrow(m) ==
    [m EXCEPT !.pc = "done", !.setFailed = TRUE]

\* run(): the catch around the upsert of a job warns, and the loop goes on
\* with the next job
CatchUpsertError(m) ==
    [m EXCEPT !.jobs = Tail(@), !.log = Append(@, "warning")]

\* run() after the call of p returned r, or threw
AfterCall(m, r) ==
    IF r.op = "upsert"
    THEN IF r.kind = "error"
         THEN CatchUpsertError(m)
         ELSE [m EXCEPT !.jobs = Tail(@), !.log = Append(@, r.kind)]
    ELSE [m EXCEPT !.pc = "done",
                   !.log = Append(@, IF r.failed THEN "sweep warning" ELSE "swept")]

\* the operation of p returns r
Return(p, r) ==
    /\ run' = [run EXCEPT ![p] = Idle]
    /\ res' = [res EXCEPT ![p] = r]
    /\ main' = IF mode = "run" THEN [main EXCEPT ![p] = AfterCall(@, r)]
               ELSE main
    /\ hist' = IF r.op = "sweep"
               THEN [sig \in Signatures |-> [hist[sig] EXCEPT !.last = "sweep"]]
               ELSE IF r.kind = "error"
               THEN hist
               ELSE [hist EXCEPT ![r.signature] =
                        [count |-> @.count + 1, last |-> r.kind,
                         crossed |-> @.crossed
                                       + IF r.thresholdReached THEN 1 ELSE 0]]

UpsertResult(p, l, kind, number, thresholdReached) ==
    [op |-> "upsert", kind |-> kind, issueNumber |-> number,
     severity |-> l.severity, muted |-> l.muted,
     totalOccurrences |-> l.totalOccurrences,
     thresholdReached |-> thresholdReached,
     \* history
     signature |-> l.signature, nth |-> hist[l.signature].count + 1,
     prev |-> hist[l.signature].last,
     preAll |-> l.preAll, preOpen |-> l.preOpen,
     annotated |-> l.annotated,
     at |-> l.occurrence.when,
     stats |-> IF kind = "created" THEN NoStats ELSE l.newBody.stats,
     wrote |-> IF kind = "created" THEN NewBody(l.occurrence).occ
               ELSE l.newBody.occ]

----------------------------------------------------------------------------
(* upsertIssueForSignature                                                 *)

StartUpsert(p, sig) ==
    /\ MayStart(p)
    /\ mode = "run" => (main[p].jobs # <<>> /\ Head(main[p].jobs) = sig)
    /\ used' = [used EXCEPT !.ops = @ + 1]
    /\ Goto(p, [Idle EXCEPT
            !.pc = "u_search",
            !.signature = sig,
            !.signatureHash = sha1(sig),
            !.ruleName = RuleOf(sig),
            !.notifyThreshold = conf.notifyThreshold,
            !.occurrence = [when |-> now, runUrl |-> p],
            !.preAll = RecordsOf(sig),
            !.preOpen = {n \in RecordsOf(sig) : store[n].state = "open"}])
    /\ UNCHANGED <<store, now, conf, mode>>

\* locals taken from found.data.items[0]
WithFound(l, item) ==
    [l EXCEPT !.pc = "u_get",
              !.found = item,
              !.wasClosed = (item.state = "closed"),
              !.muted = (MutedLabel \in item.labels)]

UpsertSearch(p) ==
    /\ run[p].pc = "u_search"
    /\ \E items \in Pages(SearchIssues(run[p].signatureHash, "any"), UpsertPerPage) :
           IF items = {}
           THEN Goto(p, [run[p] EXCEPT !.pc = "u_searchClosed"])
           ELSE \E first \in items : Goto(p, WithFound(run[p], Item(first)))
    /\ UNCHANGED <<store, now, used, conf, mode>>

UpsertSearchClosed(p) ==
    /\ run[p].pc = "u_searchClosed"
    /\ \E items \in Pages(SearchIssues(run[p].signatureHash, "closed"), UpsertPerPage) :
           IF items = {}
           THEN Goto(p, [run[p] EXCEPT !.pc = "u_create"])
           ELSE \E first \in items : Goto(p, WithFound(run[p], Item(first)))
    /\ UNCHANGED <<store, now, used, conf, mode>>

\* UpsertGet taking the severity from the count of all occurrences
UpsertGet_AllTime(p) ==
    /\ run[p].pc = "u_get"
    /\ LET l == run[p]
           body == store[l.found.number].body
           line == OccLine(l.occurrence, l.muted)
           inserted == InsertOccurrence(body, line)
           allTimestamps == parseOccurrenceTimestamps(inserted)
           stats == computeWindowStats(allTimestamps, now)
       IN  Goto(p, [l EXCEPT
               !.pc = "u_update",
               !.newBody = appendStatsLine(inserted, stats),
               !.totalOccurrences = Len(allTimestamps),
               !.last7 = stats.last7,
               !.severity = classifySeverity(l.ruleName, Len(allTimestamps))])
    /\ UNCHANGED <<store, now, used, conf, mode>>

UpsertGet(p) ==
    /\ run[p].pc = "u_get"
    /\ LET l == run[p]
           body == store[l.found.number].body
           line == OccLine(l.occurrence, l.muted)
           inserted == InsertOccurrence(body, line)
           allTimestamps == parseOccurrenceTimestamps(inserted)
           stats == computeWindowStats(allTimestamps, now)
       IN  Goto(p, [l EXCEPT
               !.pc = "u_update",
               !.newBody = appendStatsLine(inserted, stats),
               !.totalOccurrences = Len(allTimestamps),
               !.last7 = stats.last7,
               !.severity = classifySeverity(l.ruleName, stats.last7)])
    /\ UNCHANGED <<store, now, used, conf, mode>>

\* UpsertUpdate that closes the record it updates when the record is muted
UpsertUpdate_ClosingMuted(p) ==
    /\ run[p].pc = "u_update"
    /\ LET l == run[p]
           n == l.found.number
       IN  /\ store' = [store EXCEPT
                  ![n].body = l.newBody,
                  ![n].state = IF l.wasClosed THEN "open"
                               ELSE IF l.muted THEN "closed" ELSE @]
           /\ Goto(p, [l EXCEPT !.pc = IF l.wasClosed THEN "u_comment"
                                       ELSE "u_listLabels"])
    /\ UNCHANGED <<now, used, conf, mode>>

\* UpsertUpdate putting its bullet on top of the log the store holds at the
\* time of the write instead of writing back the log it read
UpsertUpdate_Merging(p) ==
    /\ run[p].pc = "u_update"
    /\ LET l == run[p]
           n == l.found.number
       IN  /\ store' = [store EXCEPT
                  ![n].body = [l.newBody EXCEPT
                                  !.occ = <<Head(l.newBody.occ)>> \o store[n].body.occ],
                  ![n].state = IF l.wasClosed THEN "open" ELSE @]
           /\ Goto(p, [l EXCEPT !.pc = IF l.wasClosed THEN "u_comment"
                                       ELSE "u_listLabels"])
    /\ UNCHANGED <<now, used, conf, mode>>

UpsertUpdate(p) ==
    /\ run[p].pc = "u_update"
    /\ LET l == run[p]
           n == l.found.number
       IN  /\ store' = [store EXCEPT
                  ![n].body = l.newBody,
                  ![n].state = IF l.wasClosed THEN "open" ELSE @]
           /\ Goto(p, [l EXCEPT !.pc = IF l.wasClosed THEN "u_comment"
                                       ELSE "u_listLabels"])
    /\ UNCHANGED <<now, used, conf, mode>>

UpsertComment(p) ==
    /\ run[p].pc = "u_comment"
    /\ store' = [store EXCEPT ![run[p].found.number].comments =
                     Append(@, [kind |-> "recurred"])]
    /\ Goto(p, [run[p] EXCEPT !.pc = "u_listLabels", !.annotated = TRUE])
    /\ UNCHANGED <<now, used, conf, mode>>

\* what follows applySeverityLabel: the threshold label, or the return
AfterSeverity(p, l) ==
    IF /\ l.notifyThreshold > 0
       /\ l.totalOccurrences >= l.notifyThreshold
       /\ ThresholdLabel \notin l.found.labels
    THEN Goto(p, [l EXCEPT !.pc = "u_addThreshold"])
    ELSE Return(p, UpsertResult(p, l, IF l.wasClosed THEN "reopened" ELSE "updated",
                                l.found.number, FALSE))

\* what follows the removal of the stale labels inside applySeverityLabel
AfterRemove(p, l) ==
    IF l.alreadyApplied
    THEN AfterSeverity(p, l)
    ELSE Goto(p, [l EXCEPT !.pc = "u_addSeverity"])

\* UpsertListLabels that finds no stale label to remove
UpsertListLabels_NoStale(p) ==
    /\ run[p].pc = "u_listLabels"
    /\ LET l == run[p]
           labels == store[l.found.number].labels
           targetLabel == SeverityLabel(l.severity)
           l2 == [l EXCEPT !.stale = <<>>,
                           !.alreadyApplied = (targetLabel \in labels)]
       IN  AfterRemove(p, l2)
    /\ UNCHANGED <<store, now, used, conf, mode>>

UpsertListLabels(p) ==
    /\ run[p].pc = "u_listLabels"
    /\ LET l == run[p]
           labels == store[l.found.number].labels
           targetLabel == SeverityLabel(l.severity)
           stale == SelectSeq(SeverityOrder,
                        LAMBDA name : name \in labels /\ name # targetLabel)
           l2 == [l EXCEPT !.stale = stale,
                           !.alreadyApplied = (targetLabel \in labels)]
       IN  IF Len(stale) > 0
           THEN Goto(p, [l2 EXCEPT !.pc = "u_removeLabel"])
           ELSE AfterRemove(p, l2)
    /\ UNCHANGED <<store, now, used, conf, mode>>

\* removing a label the record does not carry is a 404 of the store: see
\* StoreFail; here the label is there
UpsertRemoveLabel(p) ==
    /\ run[p].pc = "u_removeLabel"
    /\ LET l == run[p]
           n == l.found.number
           l2 == [l EXCEPT !.stale = Tail(@)]
       IN  /\ Head(l.stale) \in store[n].labels
           /\ store' = [store EXCEPT ![n].labels = @ \ {Head(l.stale)}]
           /\ IF Len(l2.stale) > 0
              THEN Goto(p, l2)
              ELSE AfterRemove(p, l2)
    /\ UNCHANGED <<now, used, conf, mode>>

UpsertAddSeverity(p) ==
    /\ run[p].pc = "u_addSeverity"
    /\ store' = [store EXCEPT ![run[p].found.number].labels =
                     @ \cup {SeverityLabel(run[p].severity)}]
    /\ AfterSeverity(p, run[p])
    /\ UNCHANGED <<now, used, conf, mode>>

UpsertAddThreshold(p) ==
    /\ run[p].pc = "u_addThreshold"
    /\ LET l == run[p]
       IN  /\ store' = [store EXCEPT ![l.found.number].labels =
                            @ \cup {ThresholdLabel}]
           /\ Return(p, UpsertResult(p, l, IF l.wasClosed THEN "reopened"
                                           ELSE "updated",
                                     l.found.number, TRUE))
    /\ UNCHANGED <<now, used, conf, mode>>

UpsertCreate(p) ==
    /\ run[p].pc = "u_create"
    /\ LET l == [run[p] EXCEPT !.severity = classifySeverity(run[p].ruleName, 0),
                               !.totalOccurrences = 1]
       IN  /\ store' = Append(store,
                  [title |-> IssueTitle(l.signatureHash, l.signature),
                   state |-> "open",
                   labels |-> {TrackLabel, SeverityLabel(l.severity)},
                   body |-> NewBody(l.occurrence),
                   comments |-> <<>>,
                   linkedPR |-> FALSE])
           /\ Return(p, UpsertResult(p, l, "created", Len(store) + 1, FALSE))
    /\ UNCHANGED <<now, used, conf, mode>>

----------------------------------------------------------------------------
(* autoCloseQuietIssues                                                    *)

\* open records under the tracking label whose latest parsable occurrence
\* lies before the cutoff
StaleOpen(st, cutoff) ==
    {n \in DOMAIN st :
        /\ st[n].state = "open"
        /\ TrackLabel \in st[n].labels
        /\ ~SweepSkips(parseOccurrenceTimestamps(st[n].body), cutoff)}

SweepResult(l, failed) ==
    [op |-> "sweep", failed |-> failed, closed |-> l.closed,
     \* history
     quietDays |-> l.quietDays, items |-> l.items, reached |-> l.idx,
     cutoff |-> l.cutoff, left |-> StaleOpen(store', l.cutoff)]

\* StartSweep without the return at quietDays <= 0
StartSweep_Unguarded(p, quietDays) ==
    /\ MayStart(p)
    /\ mode = "run" => /\ main[p].jobs = <<>>
                       /\ main[p].all # <<>>
                       /\ quietDays = conf.quietDays
                       /\ quietDays > 0
    /\ used' = [used EXCEPT !.ops = @ + 1]
    /\ Goto(p, [Idle EXCEPT !.pc = "s_search", !.quietDays = quietDays])
    /\ UNCHANGED <<store, now, conf, mode>>

StartSweep(p, quietDays) ==
    /\ MayStart(p)
    /\ mode = "run" => /\ main[p].jobs = <<>>
                       /\ main[p].all # <<>>
                       /\ quietDays = conf.quietDays
                       /\ quietDays > 0
    /\ used' = [used EXCEPT !.ops = @ + 1]
    /\ IF quietDays <= 0
       THEN Return(p, [op |-> "sweep", failed |-> FALSE, closed |-> <<>>,
                       quietDays |-> quietDays, items |-> <<>>, reached |-> 0,
                       cutoff |-> 0, left |-> {}])
       ELSE Goto(p, [Idle EXCEPT !.pc = "s_search", !.quietDays = quietDays])
    /\ UNCHANGED <<store, now, conf, mode>>

\* the for loop moves to its next item, or the sweep returns
NextItem(p, l) ==
    IF l.idx < Len(l.items)
    THEN Goto(p, [l EXCEPT !.pc = "s_get", !.idx = @ + 1])
    ELSE Return(p, SweepResult(l, FALSE))

SweepSearch(p) ==
    /\ run[p].pc = "s_search"
    /\ UNCHANGED <<store, now, used, conf, mode>>
    /\ \E items \in Pages({n \in Numbers : /\ TrackLabel \in store[n].labels
                                              /\ store[n].state = "open"},
                            SweepPerPage) :
           NextItem(p, [run[p] EXCEPT
               !.items = Ascending(items),
               !.idx = 0,
               !.closed = <<>>,
               !.cutoff = now - run[p].quietDays * TicksPerDay])

SweepGet(p) ==
    /\ run[p].pc = "s_get"
    /\ UNCHANGED <<store, now, used, conf, mode>>
    /\ LET l == run[p]
           timestamps == parseOccurrenceTimestamps(store[l.items[l.idx]].body)
       IN  IF SweepSkips(timestamps, l.cutoff)
           THEN NextItem(p, l)
           ELSE Goto(p, [l EXCEPT !.pc = "s_findFixingPR",
                                  !.daysSince = DaysSince(now, MaxOf(timestamps))])

\* fixingPRs.length > 0: a merged change mentions the record
SweepFindFixingPR(p) ==
    /\ run[p].pc = "s_findFixingPR"
    /\ Goto(p, [run[p] EXCEPT
           !.pc = "s_comment",
           !.fixing = store[run[p].items[run[p].idx]].linkedPR])
    /\ UNCHANGED <<store, now, used, conf, mode>>

SweepComment(p) ==
    /\ run[p].pc = "s_comment"
    /\ LET l == run[p]
       IN  store' = [store EXCEPT ![l.items[l.idx]].comments =
                         Append(@, [kind |-> "closing", daysSince |-> l.daysSince,
                                    fixing |-> l.fixing])]
    /\ Goto(p, [run[p] EXCEPT !.pc = "s_update"])
    /\ UNCHANGED <<now, used, conf, mode>>

SweepUpdate(p) ==
    /\ run[p].pc = "s_update"
    /\ LET l == run[p]
           n == l.items[l.idx]
       IN  /\ store' = [store EXCEPT ![n].state = "closed"]
           /\ NextItem(p, [l EXCEPT !.closed = Append(@, n)])
    /\ UNCHANGED <<now, used, conf, mode>>

----------------------------------------------------------------------------
(* The store fails, the clock, the maintainers                             *)

UpsertCalls == {"u_search", "u_searchClosed", "u_get", "u_update", "u_comment",
                "u_listLabels", "u_removeLabel", "u_addSeverity",
                "u_addThreshold", "u_create"}
SweepCalls == {"s_search", "s_get", "s_findFixingPR", "s_comment", "s_update"}

\* a store call throws; neither operation catches, so it ends there
StoreFail(p) ==
    /\ run[p].pc \in UpsertCalls \cup SweepCalls
    /\ \/ used.fails < MaxFails
       \/ /\ run[p].pc = "u_removeLabel"
          /\ Head(run[p].stale) \notin store[run[p].found.number].labels
    /\ used' = [used EXCEPT !.fails = @ + 1]
    /\ UNCHANGED <<store, now, conf, mode>>
    /\ IF run[p].pc \in UpsertCalls
       THEN Return(p, [op |-> "upsert", kind |-> "error",
                       signature |-> run[p].signature])
       ELSE Return(p, SweepResult(run[p], TRUE))

Tick(d) ==
    /\ AllIdle
    /\ used.ticks < MaxTicks
    /\ now' = now + d
    /\ used' = [used EXCEPT !.ticks = @ + 1]
    /\ UNCHANGED <<store, run, res, hist, conf, mode, main>>

\* a maintainer puts the muted label on a record, or takes it off
ToggleMuted(n) ==
    /\ AllIdle
    /\ used.mutes < MaxMutes
    /\ store' = [store EXCEPT ![n].labels =
                     IF MutedLabel \in @ THEN @ \ {MutedLabel}
                     ELSE @ \cup {MutedLabel}]
    /\ used' = [used EXCEPT !.mutes = @ + 1]
    /\ UNCHANGED <<now, run, res, hist, conf, mode, main>>

----------------------------------------------------------------------------
(* Initial stores                                                          *)

\* a record of the tracker as earlier runs left it: one occurrence, two
\* days and a tick old; a merged change mentions the open ones
Filed(title, state, severity) ==
    [title |-> title,
     linkedPR |-> (state = "open"),
     state |-> state,
     labels |-> {TrackLabel, SeverityLabel(severity)},
     body |-> [stats |-> NoStats, heading |-> TRUE,
               occ |-> <<[when |-> 0 - 2 * TicksPerDay - 1, runUrl |-> "r0",
                          muted |-> FALSE]>>],
     comments |-> IF state = "closed"
                  THEN <<[kind |-> "closing", daysSince |-> 1, fixing |-> FALSE]>>
                  ELSE <<>>]

FullOpen == Filed(FullHashTitle(sha1(SigESLint), SigESLint), "open", "low")
FullClosed == Filed(FullHashTitle(sha1(SigESLint), SigESLint), "closed", "high")

\* an open record in a busy week: four occurrences that are one tick short
\* of 7 days old, above one that is one tick short of 14 days old
Busy ==
    [Filed(FullHashTitle(sha1(SigESLint), SigESLint), "open", "low") EXCEPT
        !.body.occ =
            [i \in 1..(HighRecentCount - 1) |->
                [when |-> 1 - Window7 * TicksPerDay, runUrl |-> "r0",
                 muted |-> FALSE]]
            \o <<[when |-> 1 - Window14 * TicksPerDay, runUrl |-> "r0",
                  muted |-> FALSE]>>]

InitialStores == {<<>>, <<FullClosed>>, <<FullOpen, FullClosed>>, <<Busy>>}

\* the same record one occurrence earlier: the next occurrence leaves the
\* week one short of HighRecentCount, the one after it reaches it
Rising == [Busy EXCEPT !.body.occ = Tail(@)]

InitWith(m, stores) ==
    /\ store \in stores
    /\ now = 0
    /\ run = [p \in Runs |-> Idle]
    /\ res = [p \in Runs |-> NoRes]
    /\ hist = [sig \in Signatures |-> [count |-> 0, last |-> "none", crossed |-> 0]]
    /\ conf \in [notifyThreshold : Thresholds, quietDays : QuietChoices]
    /\ mode = m

Unused == [ops |-> 0, ticks |-> 0, mutes |-> 0, fails |-> 0]

\* no run() in the picture: the operations are called on their own
NoMain == [pc |-> "off", all |-> <<>>, jobs |-> <<>>, log |-> <<>>,
           setFailed |-> FALSE]

InitSeq ==
    /\ InitWith("seq", InitialStores)
    /\ used = Unused
    /\ conf.quietDays = 0
    /\ main = [p \in Runs |-> NoMain]

\* one execution of run() with track_patterns on, by r1, over its failed jobs
InitRun ==
    /\ InitWith("run", InitialStores)
    /\ used = Unused
    /\ \E failedJobs \in JobLists :
           main = [p \in Runs |->
                      IF p = "r1"
                      THEN [NoMain EXCEPT !.pc = "jobs", !.all = failedJobs,
                                          !.jobs = failedJobs]
                      ELSE NoMain]

Init == InitSeq \/ InitRun

InitOverlap ==
    /\ InitWith("overlap", InitialStores \cup {<<Rising>>})
    /\ used = Unused
    /\ conf.quietDays = 0
    /\ main = [p \in Runs |-> NoMain]

\* run(): a failed job without a hit is reported and the loop continues
RunSkipJob(p) ==
    /\ mode = "run"
    /\ main[p].pc = "jobs"
    /\ run[p].pc = "idle"
    /\ main[p].jobs # <<>>
    /\ Head(main[p].jobs) = NoHit
    /\ main' = [main EXCEPT ![p].jobs = Tail(@), ![p].log = Append(@, "nohit")]
    /\ UNCHANGED <<store, now, run, res, hist, used, conf, mode>>

\* run() returns without the sweep: there was no failed job at all, or
\* quietDays > 0 does not hold
RunEnd(p) ==
    /\ mode = "run"
    /\ main[p].pc = "jobs"
    /\ run[p].pc = "idle"
    /\ main[p].jobs = <<>>
    /\ main[p].all = <<>> \/ ~(conf.quietDays > 0)
    /\ main' = [main EXCEPT ![p].pc = "done"]
    /\ UNCHANGED <<store, now, run, res, hist, used, conf, mode>>

Operations ==
    \/ \E p \in Runs, sig \in Signatures : StartUpsert(p, sig)
    \/ \E p \in Runs : UpsertSearch(p)
    \/ \E p \in Runs : UpsertSearchClosed(p)
    \/ \E p \in Runs : UpsertGet(p)
    \/ \E p \in Runs : UpsertUpdate(p)
    \/ \E p \in Runs : UpsertComment(p)
    \/ \E p \in Runs : UpsertListLabels(p)
    \/ \E p \in Runs : UpsertRemoveLabel(p)
    \/ \E p \in Runs : UpsertAddSeverity(p)
    \/ \E p \in Runs : UpsertAddThreshold(p)
    \/ \E p \in Runs : UpsertCreate(p)
    \/ \E p \in Runs, q \in QuietChoices : StartSweep(p, q)
    \/ \E p \in Runs : SweepSearch(p)
    \/ \E p \in Runs : SweepGet(p)
    \/ \E p \in Runs : SweepFindFixingPR(p)
    \/ \E p \in Runs : SweepComment(p)
    \/ \E p \in Runs : SweepUpdate(p)
    \/ \E p \in Runs : StoreFail(p)
    \/ \E d \in TickJumps : Tick(d)
    \/ \E n \in Numbers : ToggleMuted(n)

Next ==
    \/ Operations
    \/ \E p \in Runs : RunSkipJob(p)
    \/ \E p \in Runs : RunEnd(p)

Spec == Init /\ [][Next]_vars
SpecRun == InitRun /\ [][Next]_vars

\* One sweep, with one possible store failure, over a tracker that holds one
\* open record more than a page of the sweep's search: the records the
\* upsert has created, one per failed run, for one signature
BulkStore ==
    [n \in 1..(SweepPerPage + 1) |->
        Filed(IssueTitle(sha1(SigDocker), SigDocker), "open", "high")]

InitBulk ==
    /\ InitWith("seq", {BulkStore})
    /\ used = [ops |-> MaxOps - 1, ticks |-> MaxTicks, mutes |-> MaxMutes,
               fails |-> MaxFails - 1]
    /\ conf.quietDays = 0
    /\ main = [p \in Runs |-> NoMain]

NextBulk ==
    \/ \E p \in Runs, q \in QuietChoices : StartSweep(p, q)
    \/ \E p \in Runs : SweepSearch(p)
    \/ \E p \in Runs : SweepGet(p)
    \/ \E p \in Runs : SweepFindFixingPR(p)
    \/ \E p \in Runs : SweepComment(p)
    \/ \E p \in Runs : SweepUpdate(p)
    \/ \E p \in Runs : StoreFail(p)

SpecBulk == InitBulk /\ [][NextBulk]_vars
SpecOverlap == InitOverlap /\ [][Operations]_vars

----------------------------------------------------------------------------
(* classifySeverity on its own                                             *)

\* rule names: the keys of the table, a built-in rule that is not in the
\* table, and names a custom rule may carry
RuleNames == BaseSeverityKeys \cup {"pytest", "Deploy", "constructor", "toString"}

InitSeverity ==
    /\ store = <<>>
    /\ now = 0
    /\ run = [p \in Runs |-> Idle]
    /\ res = [p \in Runs |-> NoRes]
    /\ hist = [sig \in Signatures |-> [count |-> 0, last |-> "none", crossed |-> 0]]
    /\ used = Unused
    /\ conf \in [ruleName : RuleNames, stats7d : 0..MaxRecent]
    /\ mode = "classify"
    /\ main = [p \in Runs |-> NoMain]

Classify(p) ==
    /\ res[p] = NoRes
    /\ res' = [res EXCEPT ![p] =
                  [op |-> "classifySeverity", ruleName |-> conf.ruleName,
                   stats7d |-> conf.stats7d,
                   severity |-> classifySeverity(conf.ruleName, conf.stats7d)]]
    /\ UNCHANGED <<store, now, run, hist, used, conf, mode, main>>

NextSeverity == \E p \in Runs : Classify(p)

SpecSeverity == InitSeverity /\ [][NextSeverity]_vars

----------------------------------------------------------------------------
(* The functions of src/lib/error-detector.js and normalize, each on its   *)
(* own: conf holds the arguments, res what the call returned               *)

InitFunction(m) ==
    /\ store = <<>>
    /\ now = 0
    /\ run = [p \in Runs |-> Idle]
    /\ res = [p \in Runs |-> NoRes]
    /\ hist = [sig \in Signatures |-> [count |-> 0, last |-> "none", crossed |-> 0]]
    /\ used = Unused
    /\ mode = m
    /\ main = [p \in Runs |-> NoMain]

----------------------------------------------------------------------------
(* findStepForLineIndex                                                    *)

UnknownStep == "Unknown step"
StepNames == {"Set up job", "Run npm test"}

\* the binary search of findStepForLineIndex, lo and hi as in the source
\* (indices from 0); the value is hi when the loop ends
RECURSIVE StepSearch(_, _, _, _)
StepSearch(stepStarts, lineIndex, lo, hi) ==
    IF lo <= hi
    THEN LET mid == (lo + hi) \div 2 IN
         IF stepStarts[mid + 1].idx <= lineIndex
         THEN StepSearch(stepStarts, lineIndex, mid + 1, hi)
         ELSE StepSearch(stepStarts, lineIndex, lo, mid - 1)
    ELSE hi

findStepForLineIndex(stepStarts, lineIndex) ==
    IF Len(stepStarts) = 0 THEN UnknownStep
    ELSE LET hi == StepSearch(stepStarts, lineIndex, 0, Len(stepStarts) - 1)
         IN  stepStarts[Max(0, hi) + 1].name

\* the step boundaries at the line indices of I, in increasing order
RECURSIVE BoundaryLists(_)
BoundaryLists(I) ==
    IF I = {} THEN {<<>>}
    ELSE LET last == CHOOSE i \in I : \A j \in I : j <= i IN
         {Append(l, [idx |-> last, name |-> n]) :
              l \in BoundaryLists(I \ {last}), n \in StepNames}

SortedBoundaryLists == UNION {BoundaryLists(I) : I \in SUBSET (0..MaxLineIndex)}

InitFindStep ==
    /\ InitFunction("findStep")
    /\ conf \in [stepStarts : SortedBoundaryLists, lineIndex : 0..MaxLineIndex]

FindStep(p) ==
    /\ res[p] = NoRes
    /\ res' = [res EXCEPT ![p] =
                  [op |-> "findStepForLineIndex",
                   name |-> findStepForLineIndex(conf.stepStarts, conf.lineIndex)]]
    /\ UNCHANGED <<store, now, run, hist, used, conf, mode, main>>

NextFindStep == \E p \in Runs : FindStep(p)

SpecFindStep == InitFindStep /\ [][NextFindStep]_vars

----------------------------------------------------------------------------
(* Text: a string is the sequence of its characters                       *)

UpperCase == <<"A","B","C","D","E","F","G","H","I","J","K","L","M","N","O","P","Q","R","S","T","U","V","W","X","Y","Z">>
LowerCase == <<"a","b","c","d","e","f","g","h","i","j","k","l","m","n","o","p","q","r","s","t","u","v","w","x","y","z">>
Digits == {"0","1","2","3","4","5","6","7","8","9"}
Letters == {UpperCase[i] : i \in DOMAIN UpperCase} \cup {LowerCase[i] : i \in DOMAIN LowerCase}

\* the lower-case form of a character, as the i flag of a regex compares it
ToLower(c) ==
    IF \E i \in DOMAIN UpperCase : UpperCase[i] = c
    THEN LowerCase[CHOOSE i \in DOMAIN UpperCase : UpperCase[i] = c]
    ELSE c

LowerOf(s) == [i \in DOMAIN s |-> ToLower(s[i])]

\* \w; \s is SpaceChars
IsWordChar(c) == c \in Letters \cup Digits \cup {"_"}
\* the characters U+FEFF and U+2026, each one element of a string
Bom == "U+FEFF"
Ellipsis == "U+2026"
SpaceChars == {" ", "\t", Bom}
HexLowerChars == Digits \cup {"a","b","c","d","e","f"}
HexChars == HexLowerChars \cup {"A","B","C","D","E","F"}

\* the literal lit stands in s from position i on (positions from 1)
MatchesAt(s, i, lit) ==
    /\ i >= 1
    /\ i + Len(lit) - 1 <= Len(s)
    /\ SubSeq(s, i, i + Len(lit) - 1) = lit

\* \b just before position i of s
WordBoundary(s, i) ==
    LET wordAt(k) == k >= 1 /\ k <= Len(s) /\ IsWordChar(s[k])
    IN  wordAt(i - 1) # wordAt(i)

\* /\blit\b/ matches s
WordMatch(s, lit) ==
    \E i \in 1..Len(s) :
        /\ WordBoundary(s, i)
        /\ MatchesAt(s, i, lit)
        /\ WordBoundary(s, i + Len(lit))

\* the k characters of s from position i on are digits
DigitsAt(s, i, k) == \A j \in i..(i + k - 1) : j <= Len(s) /\ s[j] \in Digits

----------------------------------------------------------------------------
(* pickFirstMeaningfulError                                                *)

ExcerptBefore == 2
ExcerptAfter == 12

\* /error TS\d+:/i
TestTsError(l) ==
    LET s == LowerOf(l) IN
    \E i \in 1..Len(s), k \in 1..Len(s) :
        /\ MatchesAt(s, i, <<"e","r","r","o","r"," ","t","s">>)
        /\ DigitsAt(s, i + 8, k)
        /\ MatchesAt(s, i + 8 + k, <<":">>)

\* /Type error:|TS\d{3,5}\b/i
TestTypeError(l) ==
    LET s == LowerOf(l) IN
    \/ Includes(s, <<"t","y","p","e"," ","e","r","r","o","r",":">>)
    \/ \E i \in 1..Len(s), k \in 3..5 :
           /\ MatchesAt(s, i, <<"t","s">>)
           /\ DigitsAt(s, i + 2, k)
           /\ WordBoundary(s, i + 2 + k)

\* /\b(vite|webpack)\b.*(error|failed)/i
TestBundler(l) ==
    LET s == LowerOf(l) IN
    \E i \in 1..Len(s), w \in {<<"v","i","t","e">>, <<"w","e","b","p","a","c","k">>} :
        /\ WordBoundary(s, i)
        /\ MatchesAt(s, i, w)
        /\ WordBoundary(s, i + Len(w))
        /\ \E j \in (i + Len(w))..Len(s) :
               MatchesAt(s, j, <<"e","r","r","o","r">>) \/ MatchesAt(s, j, <<"f","a","i","l","e","d">>)

\* /\bBuild failed\b/i
TestBuildFailed(l) == WordMatch(LowerOf(l), <<"b","u","i","l","d"," ","f","a","i","l","e","d">>)

\* /\b(TypeError|ReferenceError|SyntaxError)\b/
TestJsError(l) ==
    \/ WordMatch(l, <<"T","y","p","e","E","r","r","o","r">>)
    \/ WordMatch(l, <<"R","e","f","e","r","e","n","c","e","E","r","r","o","r">>)
    \/ WordMatch(l, <<"S","y","n","t","a","x","E","r","r","o","r">>)

\* /\bUnhandledPromiseRejection\b|\bUnhandled rejection\b/i
TestUnhandled(l) ==
    \/ WordMatch(LowerOf(l), <<"u","n","h","a","n","d","l","e","d","p","r","o","m","i","s","e","r","e","j","e","c","t","i","o","n">>)
    \/ WordMatch(LowerOf(l), <<"u","n","h","a","n","d","l","e","d"," ","r","e","j","e","c","t","i","o","n">>)

\* new RegExp(pattern, "i") of a custom rule whose pattern is a literal
TestCustom(pattern, l) == Includes(LowerOf(l), LowerOf(pattern))

\* rule.re.test(l)
Test(re, l) ==
    CASE re.id = "custom" -> TestCustom(re.pattern, l)
      [] re.id = "error TS" -> TestTsError(l)
      [] re.id = "Type error" -> TestTypeError(l)
      [] re.id = "vite|webpack" -> TestBundler(l)
      [] re.id = "Build failed" -> TestBuildFailed(l)
      [] re.id = "TypeError" -> TestJsError(l)
      [] re.id = "Unhandled" -> TestUnhandled(l)

BuiltIn(name, id) == [name |-> name, re |-> [id |-> id, pattern |-> <<>>]]

\* the built-in rules, in declared order, that a line of LogLines can
\* match; no line of LogLines matches any other built-in rule
BuiltInRules ==
    <<BuiltIn("TypeScript", "error TS"), BuiltIn("TypeScript", "Type error"),
      BuiltIn("Build", "vite|webpack"), BuiltIn("Build", "Build failed"),
      BuiltIn("Node", "TypeError"), BuiltIn("Node", "Unhandled")>>

\* the rules list: the custom rules, then the built-in rules
RulesList(customRules) == customRules \o BuiltInRules

\* lines.findIndex(test), given for each line whether it passes the test:
\* the lowest index (from 0) of a line that passes, -1 when there is none
FindIndex(passes) ==
    IF \E i \in DOMAIN passes : passes[i]
    THEN (CHOOSE i \in DOMAIN passes :
              /\ passes[i]
              /\ \A j \in 1..(i - 1) : ~passes[j]) - 1
    ELSE -1

\* lines.slice(Math.max(0, idx - 2), Math.min(lines.length, idx + 12))
Excerpt(lines, idx) ==
    SubSeq(lines, Max(0, idx - ExcerptBefore) + 1,
                  Min(Len(lines), idx + ExcerptAfter))

Hit(rule, lines, idx) ==
    [rule |-> rule, line |-> lines[idx + 1], excerpt |-> Excerpt(lines, idx),
     lineIndex |-> idx]

\* the return value null
NullHit == [rule |-> "null", line |-> <<>>, excerpt |-> <<>>, lineIndex |-> -1]

\* /##\[(group|endgroup|debug|notice)\]/i
IsAnnotation(l) ==
    \E w \in {<<"#","#","[","g","r","o","u","p","]">>, <<"#","#","[","e","n","d","g","r","o","u","p","]">>, <<"#","#","[","d","e","b","u","g","]">>, <<"#","#","[","n","o","t","i","c","e","]">>} : Includes(LowerOf(l), w)

\* /\berror\b|exception|failed/i
TestGeneric(l) ==
    \/ WordMatch(LowerOf(l), <<"e","r","r","o","r">>)
    \/ Includes(LowerOf(l), <<"e","x","c","e","p","t","i","o","n">>)
    \/ Includes(LowerOf(l), <<"f","a","i","l","e","d">>)

\* the test of the fallback scan
GenericTest(l) == l # <<>> /\ ~IsAnnotation(l) /\ TestGeneric(l)

\* the for loop over the rules, from rule k on, then the fallback scan
RECURSIVE PickFrom(_, _, _)
PickFrom(lines, rules, k) ==
    IF k <= Len(rules)
    THEN LET idx == FindIndex([i \in DOMAIN lines |-> Test(rules[k].re, lines[i])]) IN
         IF idx # -1 THEN Hit(rules[k].name, lines, idx)
         ELSE PickFrom(lines, rules, k + 1)
    ELSE LET idx == FindIndex([i \in DOMAIN lines |-> GenericTest(lines[i])]) IN
         IF idx # -1 THEN Hit("Generic", lines, idx) ELSE NullHit

\* pickFirstMeaningfulError where the line comes first: the lowest line
\* that any rule matches, under the first rule that matches it
pickFirstMeaningfulError_LineFirst(lines, customRules) ==
    LET rules == RulesList(customRules)
        idx == FindIndex([i \in DOMAIN lines |->
                             \E k \in DOMAIN rules : Test(rules[k].re, lines[i])])
    IN  IF idx # -1
        THEN Hit(rules[CHOOSE k \in DOMAIN rules :
                          /\ Test(rules[k].re, lines[idx + 1])
                          /\ \A j \in 1..(k - 1) : ~Test(rules[j].re, lines[idx + 1])].name,
                 lines, idx)
        ELSE PickFrom(lines, rules, Len(rules) + 1)

pickFirstMeaningfulError(lines, customRules) ==
    PickFrom(lines, RulesList(customRules), 1)

\* log lines: a plain one, an empty one, one per built-in category above,
\* and lines with the words of the fallback scan
LineOk == <<"o","k">>
LineJsError == <<"T","y","p","e","E","r","r","o","r",":"," ","x">>
LineTsError == <<"e","r","r","o","r"," ","T","S","2",":"," ","x">>
LineBuildFailed == <<"B","u","i","l","d"," ","f","a","i","l","e","d">>

LogLines == {LineOk, <<>>, LineJsError, LineTsError, LineBuildFailed,
    <<"2"," ","e","r","r","o","r","s">>,                                 \* 2 errors
    <<"x"," ","f","a","i","l","e","d">>,                                 \* x failed
    <<"#","#","[","d","e","b","u","g","]","f","a","i","l","e","d">>}     \* ##[debug]failed

\* k plain lines
Filler(k) == [i \in 1..k |-> LineOk]

\* logs: every log of up to MaxLines lines, and one line of LogLines with
\* up to MaxLead plain lines above it and up to MaxTrail below
Logs ==
    ListsUpTo(LogLines, MaxLines)
        \cup {Filler(a) \o <<l>> \o Filler(b) :
                  a \in 0..MaxLead, b \in 0..MaxTrail, l \in LogLines}

Custom(name, pattern) == [name |-> name, re |-> [id |-> "custom", pattern |-> pattern]]

\* custom rules as parseCustomRules hands them over
CustomRules == {Custom("Deploy", <<"f","a","i","l","e","d">>), Custom("Flaky", <<"x">>)}

InitDetect ==
    /\ InitFunction("detect")
    /\ conf \in [lines : Logs, customRules : ListsUpTo(CustomRules, MaxCustom)]

Pick(p) ==
    /\ res[p] = NoRes
    /\ res' = [res EXCEPT ![p] =
                  [op |-> "pickFirstMeaningfulError",
                   hit |-> pickFirstMeaningfulError(conf.lines, conf.customRules)]]
    /\ UNCHANGED <<store, now, run, hist, used, conf, mode, main>>

NextDetect == \E p \in Runs : Pick(p)

SpecDetect == InitDetect /\ [][NextDetect]_vars

----------------------------------------------------------------------------
(* parseCustomRules                                                        *)

\* a property of a parsed JSON object: absent, or a string
Absent == [has |-> FALSE, str |-> <<>>]
Str(chars) == [has |-> TRUE, str |-> chars]

\* r.name && r.pattern, r.hint || "": undefined and "" are falsy
Truthy(v) == v.has /\ v.str # <<>>

\* the elements of a parsed list: objects, null, and a number
Object(name, pattern, hint) ==
    [t |-> "object", name |-> name, pattern |-> pattern, hint |-> hint]

\* two well-formed rules, rules without a name, without a pattern, with an
\* empty name, with a pattern that does not compile, null, and a number
Entries == {
    Object(Str(<<"D","e","p","l","o","y">>), Str(<<"f","a","i","l","e","d">>), Absent),
    Object(Str(<<"F","l","a","k","y">>), Str(<<"x">>), Str(<<"r","e","t","r","y">>)),
    Object(Absent, Str(<<"x">>), Absent),
    Object(Str(<<"A">>), Absent, Absent),
    Object(Str(<<>>), Str(<<"x">>), Absent),
    Object(Str(<<"B","a","d">>), Str(<<"(">>), Absent),
    [t |-> "null", name |-> Absent, pattern |-> Absent, hint |-> Absent],
    [t |-> "number", name |-> Absent, pattern |-> Absent, hint |-> Absent]}

\* the input custom_rules: nothing, text that is not JSON, JSON that is not
\* a list, or a JSON list
RawList(items) == [t |-> "json list", items |-> items]

RawInputs ==
    {[t |-> "empty", items |-> <<>>],
     [t |-> "not json", items |-> <<>>],
     [t |-> "json object", items |-> <<>>],
     [t |-> "json null", items |-> <<>>]}
        \cup {RawList(l) : l \in ListsUpTo(Entries, MaxEntries)}

\* the number of c in s
RECURSIVE CountOf(_, _)
CountOf(s, c) ==
    IF s = <<>> THEN 0
    ELSE (IF Head(s) = c THEN 1 ELSE 0) + CountOf(Tail(s), c)

\* new RegExp(pattern, "i") throws a SyntaxError: of the ways a pattern can
\* be invalid the model has the group that is not closed
RegExpThrows(pattern) == CountOf(pattern, "(") # CountOf(pattern, ")")

\* the callback of filter: reading r.name of null throws a TypeError
FilterThrows(r) == r.t = "null"
FilterKeeps(r) == Truthy(r.name) /\ Truthy(r.pattern)

\* the callback of map
MapEntry(r) ==
    [name |-> r.name.str, re |-> [id |-> "custom", pattern |-> r.pattern.str],
     hint |-> IF Truthy(r.hint) THEN r.hint.str ELSE <<>>]

\* the body of the try block: the list it returns, or that it threw
TryParse(raw) ==
    IF raw.t = "not json" THEN [threw |-> TRUE, rules |-> <<>>]
    ELSE IF raw.t # "json list" THEN [threw |-> FALSE, rules |-> <<>>]
    ELSE IF \E i \in DOMAIN raw.items : FilterThrows(raw.items[i])
    THEN [threw |-> TRUE, rules |-> <<>>]
    ELSE LET kept == SelectSeq(raw.items, FilterKeeps) IN
         IF \E i \in DOMAIN kept : RegExpThrows(kept[i].pattern.str)
         THEN [threw |-> TRUE, rules |-> <<>>]
         ELSE [threw |-> FALSE, rules |-> [i \in DOMAIN kept |-> MapEntry(kept[i])]]

parseCustomRules(raw) ==
    IF raw.t = "empty" THEN [threw |-> FALSE, rules |-> <<>>]
    ELSE IF TryParse(raw).threw THEN [threw |-> FALSE, rules |-> <<>>]
    ELSE TryParse(raw)

InitParse ==
    /\ InitFunction("parse")
    /\ conf \in [raw : RawInputs]

Parse(p) ==
    /\ res[p] = NoRes
    /\ res' = [res EXCEPT ![p] =
                  [op |-> "parseCustomRules", out |-> parseCustomRules(conf.raw)]]
    /\ UNCHANGED <<store, now, run, hist, used, conf, mode, main>>

NextParse == \E p \in Runs : Parse(p)

SpecParse == InitParse /\ [][NextParse]_vars

----------------------------------------------------------------------------
(* normalize (src/lib/utils.js)                                            *)

MinHashLen == 7
MaxHashLen == 40

\* how many characters of s from position i on, without a gap, are in class
RunLen(s, i, class) ==
    CHOOSE k \in 0..(Len(s) - i + 1) :
        /\ \A j \in i..(i + k - 1) : s[j] \in class
        /\ i + k > Len(s) \/ s[i + k] \notin class

\* s.replace(/re/g, by): matchLen[i] is the length of the match of re that
\* starts at position i of s, 0 when there is none; the scan goes on behind
\* a match
RECURSIVE ReplaceFrom(_, _, _, _)
ReplaceFrom(s, i, matchLen, by) ==
    LET starts == {j \in i..Len(s) : matchLen[j] > 0} IN
    IF starts = {} THEN SubSeq(s, i, Len(s))
    ELSE LET j == CHOOSE x \in starts : \A y \in starts : x <= y
         IN  SubSeq(s, i, j - 1) \o by
                 \o ReplaceFrom(s, j + matchLen[j], matchLen, by)

\* /^\uFEFF?\d{4}-\d{2}-\d{2}T\d{2}:\d{2}:\d{2}\.\d+Z\s+/: the length of the
\* match at the start of s, 0 when there is none
TimestampShape == <<"d","d","d","d","-","d","d","-","d","d","T",
                    "d","d",":","d","d",":","d","d",".">>

TimestampPrefixLen(s) ==
    LET o == IF s # <<>> /\ s[1] = Bom THEN 1 ELSE 0
        f == Len(TimestampShape)
        shaped == /\ Len(s) >= o + f
                  /\ \A j \in 1..f :
                         IF TimestampShape[j] = "d" THEN s[o + j] \in Digits
                         ELSE s[o + j] = TimestampShape[j]
        frac == RunLen(s, o + f + 1, Digits)
        z == o + f + frac + 1
        spaces == RunLen(s, z + 1, SpaceChars)
    IN  IF shaped /\ frac >= 1 /\ z <= Len(s) /\ s[z] = "Z" /\ spaces >= 1
        THEN z + spaces
        ELSE 0

StripTimestamp(s) == SubSeq(s, TimestampPrefixLen(s) + 1, Len(s))

\* /\b0x[0-9a-fA-F]+\b/
HexLiteralLen(s, i) ==
    LET r == RunLen(s, i + 2, HexChars) IN
    IF /\ WordBoundary(s, i)
       /\ MatchesAt(s, i, <<"0","x">>)
       /\ r >= 1
       /\ WordBoundary(s, i + 2 + r)
    THEN 2 + r
    ELSE 0

\* /\b[0-9a-f]{7,40}\b/
HashLen(s, i) ==
    LET r == RunLen(s, i, HexLowerChars) IN
    IF /\ WordBoundary(s, i)
       /\ r >= MinHashLen
       /\ r <= MaxHashLen
       /\ WordBoundary(s, i + r)
    THEN r
    ELSE 0

\* /:\d+:\d+/
LineColLen(s, i) ==
    LET a == RunLen(s, i + 1, Digits)
        b == RunLen(s, i + a + 2, Digits)
    IN  IF /\ s[i] = ":"
           /\ a >= 1
           /\ MatchesAt(s, i + a + 1, <<":">>)
           /\ b >= 1
        THEN a + b + 2
        ELSE 0

\* /:\d+/
LineLen(s, i) ==
    LET a == RunLen(s, i + 1, Digits)
    IN  IF s[i] = ":" /\ a >= 1 THEN a + 1 ELSE 0

\* String.prototype.trim
Trim(s) ==
    LET lead == RunLen(s, 1, SpaceChars)
        rest == SubSeq(s, lead + 1, Len(s))
        keep == IF rest = <<>> THEN 0
                ELSE CHOOSE k \in 1..Len(rest) :
                         /\ rest[k] \notin SpaceChars
                         /\ \A j \in (k + 1)..Len(rest) : rest[j] \in SpaceChars
    IN  SubSeq(rest, 1, keep)

normalize(line) ==
    LET s1 == StripTimestamp(line)
        s2 == ReplaceFrom(s1, 1, [i \in DOMAIN s1 |-> HexLiteralLen(s1, i)],
                          <<"0","x",Ellipsis>>)
        s3 == ReplaceFrom(s2, 1, [i \in DOMAIN s2 |-> HashLen(s2, i)],
                          <<Ellipsis,"s","h","a",Ellipsis>>)
        s4 == ReplaceFrom(s3, 1, [i \in DOMAIN s3 |-> LineColLen(s3, i)],
                          <<":","<","l","i","n","e",">",":","<","c","o","l",">">>)
        s5 == ReplaceFrom(s4, 1, [i \in DOMAIN s4 |-> LineLen(s4, i)],
                          <<":","<","l","i","n","e",">">>)
    IN  Trim(s5)

\* a run of the longest length a commit hash can have
PieceLongHash == [i \in 1..MaxHashLen |-> "a"]

\* pieces of log lines: what each stage looks for (a timestamp, a hex
\* literal, a short and a longest hash), and what stands between
Pieces == {
    <<"2","0","2","4","-","0","1","-","0","1","T","0","0",":","0","0",":","0","0",".","5","Z">>,
    <<"0","x","1","f">>,
    <<"a","b","c","d","e","f","1">>,
    PieceLongHash, <<":">>, <<"1">>, <<" ">>, <<"x">>}

RECURSIVE Concat(_)
Concat(ss) == IF ss = <<>> THEN <<>> ELSE Head(ss) \o Concat(Tail(ss))

\* the lines made of up to MaxSegments pieces
SegmentedLines == {Concat(l) : l \in ListsUpTo(Pieces, MaxSegments)}

InitNormalize ==
    /\ InitFunction("normalize")
    /\ conf \in [line : SegmentedLines]

Normalize(p) ==
    /\ res[p] = NoRes
    /\ res' = [res EXCEPT ![p] =
                  [op |-> "normalize", once |-> normalize(conf.line),
                   twice |-> normalize(normalize(conf.line))]]
    /\ UNCHANGED <<store, now, run, hist, used, conf, mode, main>>

NextNormalize == \E p \in Runs : Normalize(p)

SpecNormalize == InitNormalize /\ [][NextNormalize]_vars

----------------------------------------------------------------------------
(* The signature of a hit (run() in index.js)                              *)

\* `${hit.rule}: ${normalized}` with normalized = normalize(hit.line); the
\* category is the sequence of its characters here
SignatureOf(hit) == hit.rule \o <<":", " ">> \o normalize(hit.line)

\* categories: two built-in names and two names of custom rules, one of
\* them with ": " in it
Categories == {
    <<"N","o","d","e">>,
    <<"B","u","i","l","d">>,
    <<"D","e","p","l","o","y">>,
    <<"N","o","d","e",":"," ","T","y","p","e","E","r","r","o","r">>}

\* the lines of hits: two of them differ only in a line number
HitLines == {LineJsError, LineBuildFailed, <<"x">>,
             <<"x",".","j","s",":","1","2">>, <<"x",".","j","s",":","3","4">>}

Hits == [rule : Categories, line : HitLines]

InitSignature ==
    /\ InitFunction("signature")
    /\ conf \in [a : Hits, b : Hits]

Sign(p) ==
    /\ res[p] = NoRes
    /\ res' = [res EXCEPT ![p] =
                  [op |-> "signature", a |-> SignatureOf(conf.a),
                   b |-> SignatureOf(conf.b)]]
    /\ UNCHANGED <<store, now, run, hist, used, conf, mode, main>>

NextSignature == \E p \in Runs : Sign(p)

SpecSignature == InitSignature /\ [][NextSignature]_vars

----------------------------------------------------------------------------
(* The body of a record as text: the sequence of its lines. What the       *)
(* update path of upsertIssueForSignature and appendStatsLine do to it,    *)
(* line by line                                                            *)

TextLine(kind) == [kind |-> kind, when |-> 0, runUrl |-> "", last7 |-> 0, last14 |-> 0]

\* "- <when> - <runUrl>" and "- [muted] <when> - <runUrl>"
BulletLine(occurrence, muted) ==
    [TextLine(IF muted THEN "muted bullet" ELSE "bullet") EXCEPT
        !.when = occurrence.when, !.runUrl = occurrence.runUrl]

\* `**Last 7d:** ${stats.last7} | **Last 14d:** ${stats.last14}`
StatsLine(stats) ==
    [TextLine("stats") EXCEPT !.last7 = stats.last7, !.last14 = stats.last14]

\* header + "## Occurrences\n" + occLine + "\n"
NewBodyText(occurrence) ==
    <<TextLine("marker"), TextLine("blank"), TextLine("signature label"),
      TextLine("fence"), TextLine("signature"), TextLine("fence"),
      TextLine("blank"), TextLine("heading"), BulletLine(occurrence, FALSE)>>

\* the position of the first line of a kind, 0 when there is none
FirstOf(lines, kind) ==
    IF \E i \in DOMAIN lines : lines[i].kind = kind
    THEN CHOOSE i \in DOMAIN lines :
             /\ lines[i].kind = kind
             /\ \A j \in 1..(i - 1) : lines[j].kind # kind
    ELSE 0

\* body.includes("## Occurrences") ? body.replace(/^## Occurrences\s*$/m,
\* "## Occurrences") : body + (body.endsWith("\n") ? "" : "\n")
\* + "\n## Occurrences\n"
WithHeading(lines) ==
    IF FirstOf(lines, "heading") # 0 THEN lines
    ELSE IF lines = <<>>
    THEN <<TextLine("blank"), TextLine("blank"), TextLine("heading")>>
    ELSE lines \o <<TextLine("blank"), TextLine("heading")>>

\* updatedBody.replace(/## Occurrences\s*\n/i, "## Occurrences\n" + line
\* + "\n"): the line goes directly under the first heading, and the blank
\* lines that stood there go with the match
InsertOccurrenceText(lines, line) ==
    LET h == FirstOf(lines, "heading")
        blanks == RunLen(lines, h + 1, {TextLine("blank")})
    IN  SubSeq(lines, 1, h) \o <<line>> \o SubSeq(lines, h + blanks + 1, Len(lines))

\* parseOccurrenceTimestamps on the text: the lines "- <timestamp> ..."
parseOccurrenceTimestampsText(lines) ==
    LET bullets == SelectSeq(lines, LAMBDA l : l.kind = "bullet")
    IN  [i \in DOMAIN bullets |-> bullets[i].when]

\* appendStatsLine that never replaces: the stats line goes in front of
\* the heading also when the body has one already
appendStatsLineText_Prepending(lines, stats) ==
    LET h == FirstOf(lines, "heading")
    IN  IF h = 0 THEN lines
        ELSE SubSeq(lines, 1, h - 1) \o <<StatsLine(stats), TextLine("blank")>>
                 \o SubSeq(lines, h, Len(lines))

\* appendStatsLine on the text: the first line "**Last 7d:**..." is
\* replaced; without one the stats line and a blank line go in front of the
\* first heading
appendStatsLineText(lines, stats) ==
    LET st == FirstOf(lines, "stats")
        h == FirstOf(lines, "heading")
    IN  IF st # 0 THEN [lines EXCEPT ![st] = StatsLine(stats)]
        ELSE IF h = 0 THEN lines
        ELSE SubSeq(lines, 1, h - 1) \o <<StatsLine(stats), TextLine("blank")>>
                 \o SubSeq(lines, h, Len(lines))

\* newBody of the update path, and the stats it computed
UpdateText(lines, occurrence, muted, at) ==
    LET inserted == InsertOccurrenceText(WithHeading(lines),
                                         BulletLine(occurrence, muted))
        stats == computeWindowStats(parseOccurrenceTimestampsText(inserted), at)
    IN  [lines |-> appendStatsLineText(inserted, stats), stats |-> stats]

\* the body of the model for a text
BodyOf(lines) ==
    LET st == FirstOf(lines, "stats")
        bullets == SelectSeq(lines, LAMBDA l : l.kind \in {"bullet", "muted bullet"})
    IN  [stats |-> IF st = 0 THEN NoStats ELSE <<lines[st].last7, lines[st].last14>>,
         heading |-> FirstOf(lines, "heading") # 0,
         occ |-> [i \in DOMAIN bullets |->
                     [when |-> bullets[i].when, runUrl |-> bullets[i].runUrl,
                      muted |-> bullets[i].kind = "muted bullet"]]]

\* the text of Busy after an update a day before: its stats line is there
BusyText ==
    <<TextLine("marker"), TextLine("blank"), TextLine("signature label"),
      TextLine("fence"), TextLine("signature"), TextLine("fence"),
      TextLine("blank"),
      StatsLine([last7 |-> HighRecentCount - 1, last14 |-> HighRecentCount]),
      TextLine("blank"), TextLine("heading")>>
        \o [i \in 1..Len(Busy.body.occ) |-> BulletLine(Busy.body.occ[i], FALSE)]

\* a record's body before a run: no record yet, an empty body, or BusyText
NoText == [op |-> "none"]
TextOf(lines) == [op |-> "body", kind |-> "filed", lines |-> lines,
                  stats |-> [last7 |-> 0, last14 |-> 0]]

InitBody ==
    /\ InitFunction("body")
    /\ conf \in [start : {NoText, TextOf(<<>>), TextOf(BusyText)}]

\* the create path writes the body
BodyCreate(p) ==
    /\ p = "r1"
    /\ conf.start = NoText
    /\ res[p] = NoRes
    /\ used.ops < MaxOps
    /\ used' = [used EXCEPT !.ops = @ + 1]
    /\ res' = [res EXCEPT ![p] =
                  [op |-> "body", kind |-> "created",
                   lines |-> NewBodyText([when |-> now, runUrl |-> p]),
                   stats |-> [last7 |-> 0, last14 |-> 0]]]
    /\ UNCHANGED <<store, now, run, hist, conf, mode, main>>

\* the update path rewrites the body
BodyUpdate(p, muted) ==
    /\ p = "r1"
    /\ res[p] # NoRes \/ conf.start # NoText
    /\ used.ops < MaxOps
    /\ used' = [used EXCEPT !.ops = @ + 1]
    /\ LET old == IF res[p] = NoRes THEN conf.start.lines ELSE res[p].lines
           new == UpdateText(old, [when |-> now, runUrl |-> p], muted, now)
       IN  res' = [res EXCEPT ![p] =
                      [op |-> "body", kind |-> "updated", lines |-> new.lines,
                       stats |-> new.stats]]
    /\ UNCHANGED <<store, now, run, hist, conf, mode, main>>

NextBody ==
    \/ \E p \in Runs : BodyCreate(p)
    \/ \E p \in Runs, muted \in BOOLEAN : BodyUpdate(p, muted)
    \/ \E d \in TickJumps : Tick(d)

SpecBody == InitBody /\ [][NextBody]_vars

----------------------------------------------------------------------------
(* buildStepIndex                                                          *)

GroupMarker == <<"#","#","[","g","r","o","u","p","]">>

NoMatch == [matched |-> FALSE, group |-> <<>>]

\* l.match(/^.*##\[group\]<word>\s+(.+)\s*$/) when spaced, and
\* l.match(/^.*##\[group\]<word>(.+)\s*$/) when not: the greedy .* takes
\* the last place where the rest of the pattern fits, \s+ takes the white
\* space but leaves a character for the group, and the group runs to the
\* end of the line
GroupMatch(l, word, spaced) ==
    LET lit == GroupMarker \o word
        rest(i) == SubSeq(l, i + Len(lit), Len(l))
        fits(i) == /\ MatchesAt(l, i, lit)
                   /\ IF spaced THEN Len(rest(i)) >= 2 /\ rest(i)[1] \in SpaceChars
                      ELSE Len(rest(i)) >= 1
        at == {i \in 1..Len(l) : fits(i)}
    IN  IF at = {} THEN NoMatch
        ELSE LET i == CHOOSE x \in at : \A y \in at : y <= x
                 r == rest(i)
                 k == IF spaced THEN Min(RunLen(r, 1, SpaceChars), Len(r) - 1) ELSE 0
             IN  [matched |-> TRUE, group |-> SubSeq(r, k + 1, Len(r))]

groupStep(l) == GroupMatch(l, <<"S","t","e","p",":">>, TRUE)
groupRun(l) == GroupMatch(l, <<"R","u","n">>, TRUE)
groupName(l) == GroupMatch(l, <<>>, FALSE)

\* /^word\b/i.test(n)
StartsWithWord(n, word) ==
    /\ MatchesAt(LowerOf(n), 1, LowerOf(word))
    /\ WordBoundary(n, Len(word) + 1)

WordPost == <<"P","o","s","t">>
WordCleaningUp == <<"C","l","e","a","n","i","n","g"," ","u","p">>

\* what one pass of the loop pushes for line l at index i: one boundary or
\* none
StepStart(l, i) ==
    IF groupStep(l).matched
    THEN <<[idx |-> i, name |-> Trim(groupStep(l).group)]>>
    ELSE IF groupRun(l).matched
    THEN <<[idx |-> i, name |-> <<"R","u","n"," ">> \o Trim(groupRun(l).group)]>>
    ELSE IF groupName(l).matched
    THEN LET n == Trim(groupName(l).group) IN
         IF n # <<>> /\ ~StartsWithWord(n, WordPost)
                     /\ ~StartsWithWord(n, WordCleaningUp)
         THEN <<[idx |-> i, name |-> n]>>
         ELSE <<>>
    ELSE <<>>

\* the for loop from line index i on
RECURSIVE StepStartsFrom(_, _)
StepStartsFrom(lines, i) ==
    IF i >= Len(lines) THEN <<>>
    ELSE StepStart(lines[i + 1], i) \o StepStartsFrom(lines, i + 1)

buildStepIndex(lines) == StepStartsFrom(lines, 0)

\* the lines of a job log that open a group, and two that do not
StepLines == {
    <<"#","#","[","g","r","o","u","p","]","S","t","e","p",":"," ","b","u","i","l","d">>,
    <<"#","#","[","g","r","o","u","p","]","R","u","n"," ","n","p","m"," ","t","e","s","t">>,
    <<"#","#","[","g","r","o","u","p","]","S","e","t"," ","u","p"," ","j","o","b">>,
    <<"#","#","[","g","r","o","u","p","]","P","o","s","t"," ","j","o","b">>,
    <<"#","#","[","g","r","o","u","p","]","P","o","s","t","g","r","e","s">>,
    <<"#","#","[","g","r","o","u","p","]","C","l","e","a","n","i","n","g"," ","u","p">>,
    <<"#","#","[","g","r","o","u","p","]","p","o","s","t"," ","x">>,
    <<"#","#","[","g","r","o","u","p","]","R","u","n">>,
    <<"#","#","[","e","n","d","g","r","o","u","p","]">>, LineOk}

InitSteps ==
    /\ InitFunction("steps")
    /\ conf \in [lines : ListsUpTo(StepLines, MaxLines)]

BuildSteps(p) ==
    /\ res[p] = NoRes
    /\ res' = [res EXCEPT ![p] =
                  [op |-> "buildStepIndex", stepStarts |-> buildStepIndex(conf.lines)]]
    /\ UNCHANGED <<store, now, run, hist, used, conf, mode, main>>

NextSteps == \E p \in Runs : BuildSteps(p)

SpecSteps == InitSteps /\ [][NextSteps]_vars

----------------------------------------------------------------------------
(* What the claims speak of                                                *)

\* the last operation of p was an upsert that returned
Upserted(p) == res[p].op = "upsert" /\ res[p].kind # "error"

\* the last operation of p was a sweep
Swept(p) == res[p].op = "sweep"

\* the records an upsert created for a signature
CreatedFor(sig) ==
    {n \in Numbers : store[n].title = IssueTitle(sha1(sig), sig)}

\* the store held a record of the signature before any upsert of it
FiledBefore(sig) ==
    \E n \in Numbers : store[n].title = FullHashTitle(sha1(sig), sig)

\* s is t, or t with one bullet put in front
SameOrOneMore(s, t) == s = t \/ (s # <<>> /\ Tail(s) = t)

\* the bullets of a log that the upserts of the two runs wrote
NewBullets(occ) == {i \in DOMAIN occ : occ[i].runUrl \in Runs}

----------------------------------------------------------------------------
(* C1  Deduplication                                                       *)

\* C1: an upsert for a fingerprint that already has a record does not
\* create one: it returns "updated" (or "reopened") for a record that was
\* there, so a record created for a fingerprint is the only record of it.
C1_Deduplication ==
    /\ \A p \in Runs :
          (Upserted(p) /\ res[p].preAll # {}) =>
              /\ res[p].kind # "created"
              /\ res[p].issueNumber \in res[p].preAll
    /\ \A sig \in Signatures :
          \A n \in CreatedFor(sig) : RecordsOf(sig) = {n}

----------------------------------------------------------------------------
(* C2  Occurrence counting                                                 *)

\* C2: the k-th successful upsert for a fingerprint whose record the first
\* of them created returns totalOccurrences = k.
C2_CountsEveryUpsert ==
    \A p \in Runs :
        (Upserted(p) /\ ~FiledBefore(res[p].signature)) =>
            res[p].totalOccurrences = res[p].nth

\* the same count on a record that was there before: an upsert that updates
\* a record returns the number of bullets the log then has, muted or not
C2_CountsMutedBullets ==
    \A p \in Runs :
        (Upserted(p) /\ res[p].kind # "created") =>
            res[p].totalOccurrences = Len(res[p].wrote)

----------------------------------------------------------------------------
(* C3  Append-only history                                                 *)

\* C3: no step of a sequence of non-overlapping upserts and sweeps deletes a
\* record, and every step leaves each record's log as it was or with one
\* new bullet in front of the bullets it had, which keep their order.
C3_AppendOnly ==
    [][/\ Len(store') >= Len(store)
       /\ \A n \in DOMAIN store :
              SameOrOneMore(store'[n].body.occ, store[n].body.occ)]_vars

\* an upsert has put a bullet on top of an older one and a later sweep has
\* closed that record
C3_Witness ==
    \E n \in Numbers :
        /\ Len(store[n].body.occ) >= 2
        /\ store[n].body.occ[1].runUrl = "r1"
        /\ Swept("r1")
        /\ \E i \in DOMAIN res["r1"].closed : res["r1"].closed[i] = n

----------------------------------------------------------------------------
(* C4  Lost update under overlap                                           *)

\* C4: when the upserts of two overlapping runs have updated the same record
\* and both read its log before either wrote it, the log holds the bullet
\* of only one of them.
C4_LostUpdate ==
    ( /\ Upserted("r1") /\ res["r1"].kind # "created"
      /\ Upserted("r2") /\ res["r2"].kind # "created"
      /\ res["r1"].issueNumber = res["r2"].issueNumber
      /\ Tail(res["r1"].wrote) = Tail(res["r2"].wrote) )
    => Cardinality(NewBullets(store[res["r1"].issueNumber].body.occ)) = 1

\* both runs have updated one record from the same read of its log
C4_Witness ==
    /\ Upserted("r1") /\ res["r1"].kind = "updated"
    /\ Upserted("r2") /\ res["r2"].kind = "updated"
    /\ res["r1"].issueNumber = res["r2"].issueNumber
    /\ Tail(res["r1"].wrote) = Tail(res["r2"].wrote)
    /\ Len(store[res["r1"].issueNumber].body.occ) = Len(res["r1"].wrote)

----------------------------------------------------------------------------
(* C5  Reopen on recurrence                                                *)

\* C5: an upsert for a fingerprint whose only record is closed returns
\* "reopened" for that record and posts one recurrence comment; the upsert
\* that follows a reopening, with no sweep in between, returns "updated" and
\* posts none.
C5_ReopenOnRecurrence ==
    \A p \in Runs :
        Upserted(p) =>
            /\ (Cardinality(res[p].preAll) = 1 /\ res[p].preOpen = {}) =>
                   /\ res[p].kind = "reopened"
                   /\ res[p].issueNumber \in res[p].preAll
                   /\ res[p].annotated
            /\ res[p].prev = "reopened" =>
                   /\ res[p].kind = "updated"
                   /\ ~res[p].annotated

----------------------------------------------------------------------------
(* C6  OPEN is preferred                                                   *)

\* C6: an upsert for a fingerprint that has both an open and a closed record
\* returns "updated" for an open one.
C6_OpenPreferred ==
    \A p \in Runs :
        ( /\ Upserted(p)
          /\ res[p].preOpen # {}
          /\ res[p].preAll \ res[p].preOpen # {} )
        => /\ res[p].kind = "updated"
           /\ res[p].issueNumber \in res[p].preOpen

----------------------------------------------------------------------------
(* C7  Sweep failure isolation                                             *)

\* C7: a sweep in which a store call failed has still gone through every
\* record of its batch.
C7_SweepIsolatesFailure ==
    \A p \in Runs :
        (Swept(p) /\ res[p].failed) => res[p].reached = Len(res[p].items)

----------------------------------------------------------------------------
(* C8  Sweep never closes an active record                                 *)

\* C8: the sweep closes no record whose log holds a bullet, muted or not,
\* that is less than quietDays days old.
C8_NeverClosesActive ==
    [][\A p \in Runs : \A n \in DOMAIN store :
          ( /\ run[p].pc = "s_update"
            /\ store[n].state = "open"
            /\ store'[n].state = "closed" )
          => \A i \in DOMAIN store[n].body.occ :
                 now - store[n].body.occ[i].when
                     >= run[p].quietDays * TicksPerDay]_vars

----------------------------------------------------------------------------
(* C9  Sweep decision and annotation                                       *)

\* C9: a sweep step changes a record (posts a comment, closes it) only if
\* the record has an occurrence, the latest of its occurrences is strictly
\* older than now - quietDays days, and the closing comment names the whole
\* days since that occurrence, rounded down.
C9_SweepDecision ==
    [][\A p \in Runs : \A n \in DOMAIN store :
          (run[p].pc \in SweepCalls /\ store'[n] # store[n]) =>
              LET occ == store[n].body.occ
                  notes == store'[n].comments
                  note == notes[Len(notes)]
              IN  /\ occ # <<>>
                  /\ \A i \in DOMAIN occ :
                         occ[i].when < now - run[p].quietDays * TicksPerDay
                  /\ notes # <<>>
                  /\ note.kind = "closing"
                  /\ \E i \in DOMAIN occ :
                         /\ \A j \in DOMAIN occ : occ[j].when <= occ[i].when
                         /\ note.daysSince * TicksPerDay <= now - occ[i].when
                         /\ now - occ[i].when < (note.daysSince + 1) * TicksPerDay]_vars

\* The same decision over the bullets parseOccurrenceTimestamps reads, the
\* ones written while the record was not muted.
C9_DecisionOverParsed ==
    [][\A p \in Runs : \A n \in DOMAIN store :
          (run[p].pc \in SweepCalls /\ store'[n] # store[n]) =>
              LET occ == store[n].body.occ
                  plain == {i \in DOMAIN occ : ~occ[i].muted}
                  notes == store'[n].comments
                  note == notes[Len(notes)]
              IN  /\ plain # {}
                  /\ \A i \in plain :
                         occ[i].when < now - run[p].quietDays * TicksPerDay
                  /\ notes # <<>>
                  /\ note.kind = "closing"
                  /\ \E i \in plain :
                         /\ \A j \in plain : occ[j].when <= occ[i].when
                         /\ note.daysSince * TicksPerDay <= now - occ[i].when
                         /\ now - occ[i].when < (note.daysSince + 1) * TicksPerDay]_vars

----------------------------------------------------------------------------
(* C10  Sweep completeness                                                 *)

\* C10: a sweep with quietDays > 0 that returns without a store failure
\* leaves no open record under the tracking label whose latest bullet is
\* older than now - quietDays days.
C10_SweepComplete ==
    \A p \in Runs :
        (Swept(p) /\ ~res[p].failed /\ res[p].quietDays > 0) =>
            res[p].left = {}

----------------------------------------------------------------------------
(* C11  Threshold is one-shot                                              *)

\* at most one upsert of a fingerprint has returned thresholdReached, and
\* none when notifyThreshold is 0
C11_AtMostOnce ==
    /\ \A sig \in Signatures : hist[sig].crossed <= 1
    /\ conf.notifyThreshold = 0 =>
           \A sig \in Signatures : hist[sig].crossed = 0

\* C11: of the sequential upserts of one fingerprint at most one returns
\* thresholdReached = TRUE, none when notifyThreshold = 0; with a threshold
\* T >= 2 on a fingerprint first seen by the upsert, it is the T-th upsert
\* that returns TRUE and no other.
C11_ThresholdOneShot ==
    /\ C11_AtMostOnce
    /\ \A p \in Runs :
          ( /\ Upserted(p)
            /\ conf.notifyThreshold >= 2
            /\ ~FiledBefore(res[p].signature) )
          => (res[p].thresholdReached <=> res[p].nth = conf.notifyThreshold)

----------------------------------------------------------------------------
(* C12  Threshold timing                                                   *)

\* C12: with notifyThreshold T >= 1, the upsert that brings the log of its
\* record to T occurrences returns thresholdReached = TRUE, the creating
\* upsert included when T = 1.
C12_ThresholdTiming ==
    \A p \in Runs :
        ( /\ Upserted(p)
          /\ conf.notifyThreshold >= 1
          /\ Len(res[p].wrote) = conf.notifyThreshold )
        => res[p].thresholdReached

----------------------------------------------------------------------------
(* C13  Severity label exclusivity                                         *)

\* C13: when an upsert returns successfully, its record carries exactly one
\* "severity:" label, the one of the severity the upsert returns.
C13_OneSeverityLabel ==
    [][\A p \in Runs :
          ( /\ run[p].pc \in UpsertCalls
            /\ run'[p].pc = "idle"
            /\ res'[p].kind # "error" )
          => store'[res'[p].issueNumber].labels \cap SeverityLabels
                 = {SeverityLabel(res'[p].severity)}]_vars

\* an upsert has reopened the record that carried "severity:high" and has
\* returned "low"
C13_Witness ==
    /\ Upserted("r1")
    /\ res["r1"].kind = "reopened"
    /\ res["r1"].severity = "low"
    /\ store[res["r1"].issueNumber].labels \cap SeverityLabels = {"severity:low"}

----------------------------------------------------------------------------
(* C14  Severity function                                                  *)

\* C14: classifySeverity gives "high" when recentCount >= 5, and otherwise
\* the base severity of the category, "low" for every category that is not
\* in the table.
C14_SeverityFunction ==
    \A p \in Runs :
        res[p].op = "classifySeverity" =>
            res[p].severity =
                IF res[p].stats7d >= 5 THEN "high"
                ELSE IF res[p].ruleName \in BaseSeverityKeys
                     THEN BASE_SEVERITY(res[p].ruleName)
                     ELSE "low"

\* the same for the categories that are not the name of a member of
\* Object.prototype
C14_OffPrototype ==
    \A p \in Runs :
        (res[p].op = "classifySeverity"
            /\ res[p].ruleName \notin ObjectPrototypeKeys) =>
            res[p].severity =
                IF res[p].stats7d >= 5 THEN "high"
                ELSE CASE res[p].ruleName \in {"Docker", "npm", "Build", "Node"} -> "high"
                       [] res[p].ruleName \in {"TypeScript", "Jest/Vitest"} -> "medium"
                       [] OTHER -> "low"

----------------------------------------------------------------------------
(* C15  Severity follows the current window                                *)

\* the bullets of a log that are at most days days older than at
Within(occ, at, days) ==
    {i \in DOMAIN occ : occ[i].when >= at - days * TicksPerDay}

\* C15: an upsert on an existing record returns, and labels the record
\* with, the severity of its category and of the last7 it has just computed;
\* when fewer than 5 occurrences lie in the last 7 days that is the base
\* severity of the category, whatever the record was labelled before.
C15_SeverityOfWindow ==
    [][\A p \in Runs :
          ( /\ run[p].pc \in UpsertCalls
            /\ run'[p].pc = "idle"
            /\ res'[p].kind \in {"updated", "reopened"} )
          => LET r == res'[p]
                 base == BASE_SEVERITY(RuleOf(r.signature))
             IN  /\ r.severity = IF r.stats[1] >= 5 THEN "high" ELSE base
                 /\ SeverityLabel(r.severity) \in store'[r.issueNumber].labels
                 /\ Cardinality(Within(r.wrote, r.at, 7)) < 5
                        => r.severity = base]_vars

\* the record that the fifth occurrence of a week made "high" is "low"
\* again at the upsert of the day after
C15_Witness ==
    /\ Upserted("r1")
    /\ res["r1"].kind = "updated"
    /\ res["r1"].severity = "low"
    /\ Len(res["r1"].wrote) = HighRecentCount + 2
    /\ res["r1"].wrote[2].runUrl = "r1"
    /\ res["r1"].at > res["r1"].wrote[2].when
    /\ store[res["r1"].issueNumber].labels \cap SeverityLabels = {"severity:low"}

----------------------------------------------------------------------------
(* C16  Window statistics                                                  *)

\* C16: an upsert on an existing record writes as last7 the number of
\* occurrences of the log that are at most 7 days old and as last14 the
\* number that are at most 14 days old, counted over the whole log.
C16_WindowStatistics ==
    \A p \in Runs :
        (Upserted(p) /\ res[p].kind # "created") =>
            res[p].stats = <<Cardinality(Within(res[p].wrote, res[p].at, 7)),
                             Cardinality(Within(res[p].wrote, res[p].at, 14))>>

\* the same count over the bullets that were written while the record was
\* not muted
C16_OverParsed ==
    \A p \in Runs :
        (Upserted(p) /\ res[p].kind # "created") =>
            LET plain == SelectSeq(res[p].wrote, LAMBDA b : ~b.muted)
            IN  res[p].stats = <<Cardinality(Within(plain, res[p].at, 7)),
                                 Cardinality(Within(plain, res[p].at, 14))>>

----------------------------------------------------------------------------
(* C17  Creation                                                           *)

\* C17: an upsert for a fingerprint that has no record returns "created";
\* the creating step adds exactly one record and changes no other: the new
\* record is open, holds the one occurrence of the upsert, carries the
\* tracking label and the label of the base severity of the category; the
\* upsert returns its number, totalOccurrences = 1 and that severity.
C17_Creation ==
    [][\A p \in Runs :
          ( /\ run[p].pc \in UpsertCalls
            /\ run'[p].pc = "idle"
            /\ res'[p].kind # "error" )
          => LET r == res'[p]
                 base == BASE_SEVERITY(RuleOf(r.signature))
                 new == store'[Len(store')]
             IN  /\ (r.preAll = {} /\ ~FiledBefore(r.signature))
                        => r.kind = "created"
                 /\ r.kind = "created" =>
                        /\ Len(store') = Len(store) + 1
                        /\ \A n \in DOMAIN store : store'[n] = store[n]
                        /\ new.state = "open"
                        /\ new.body.occ = <<[when |-> now, runUrl |-> p,
                                             muted |-> FALSE]>>
                        /\ new.labels = {TrackLabel, SeverityLabel(base)}
                        /\ r.issueNumber = Len(store')
                        /\ r.totalOccurrences = 1
                        /\ r.severity = base
                 /\ r.kind # "created" => Len(store') = Len(store)]_vars

\* the first upsert of "Docker: Bar" has created its record
C17_Witness ==
    /\ Upserted("r1")
    /\ res["r1"].kind = "created"
    /\ res["r1"].preAll = {}
    /\ res["r1"].signature = SigDocker
    /\ res["r1"].severity = "high"
    /\ store[res["r1"].issueNumber].state = "open"
    /\ store[res["r1"].issueNumber].labels = {TrackLabel, "severity:high"}
    /\ Len(store[res["r1"].issueNumber].body.occ) = 1

----------------------------------------------------------------------------
(* C18  Only the sweep closes                                              *)

\* C18: a record goes from open to closed only in the closing step of the
\* sweep, a step of an upsert changes the state of a record only from closed
\* to open, and every closed record has the closing comment of a sweep.
C18_OnlySweepCloses ==
    [][\A n \in DOMAIN store :
          /\ (store[n].state = "open" /\ store'[n].state = "closed") =>
                 \E p \in Runs : /\ run[p].pc = "s_update"
                                 /\ run[p].items[run[p].idx] = n
          /\ (store[n].state = "closed" /\ store'[n].state = "open") =>
                 \E p \in Runs : /\ run[p].pc = "u_update"
                                 /\ run[p].found.number = n
          /\ (\E p \in Runs : run[p].pc \in UpsertCalls /\ run'[p] # run[p]) =>
                 store'[n].state \in {store[n].state, "open"}
          /\ store'[n].state = "closed" =>
                 \E i \in DOMAIN store'[n].comments :
                     store'[n].comments[i].kind = "closing"]_vars

\* an upsert has reopened one record and a later sweep has closed another
C18_Witness ==
    /\ Swept("r1")
    /\ res["r1"].closed # <<>>
    /\ \E n \in Numbers :
          /\ store[n].state = "open"
          /\ \E i \in DOMAIN store[n].comments :
                 store[n].comments[i].kind = "recurred"
    /\ \E n \in Numbers :
          /\ store[n].state = "closed"
          /\ store[n].body.occ[1].runUrl = "r0"
          /\ Len(store[n].comments) = 1

----------------------------------------------------------------------------
(* C19  Sweep disabled                                                     *)

\* C19: a sweep called with quietDays <= 0 returns at once with an empty
\* list: it is never at a store call and the store is as it was; and an
\* execution of run() calls the sweep only with quietDays > 0.
C19_SweepDisabled ==
    [][/\ \A p \in Runs :
             /\ run'[p].pc \in SweepCalls => run'[p].quietDays > 0
             /\ (Swept(p) /\ res[p].quietDays <= 0) =>
                    /\ res[p].closed = <<>>
                    /\ res[p].items = <<>>
                    /\ ~res[p].failed
             /\ mode = "run" =>
                    /\ Swept(p) => res[p].quietDays > 0
                    /\ conf.quietDays <= 0 =>
                           \A i \in DOMAIN main'[p].log :
                               main'[p].log[i] \notin {"swept", "sweep warning"}
       \* an operation that has started and returned in one step
       /\ (AllIdle /\ AllIdle' /\ used'.ops = used.ops + 1) =>
             /\ store' = store
             /\ mode # "run"
             /\ \E p \in Runs :
                    /\ res'[p].op = "sweep"
                    /\ res'[p].quietDays <= 0
                    /\ res'[p].closed = <<>>
                    /\ \A q \in Runs \ {p} : res'[q] = res[q]]_vars

\* a sweep with quietDays = 0 has returned and an open record whose last
\* occurrence is days old is still there
C19_Witness ==
    /\ mode = "seq"
    /\ Swept("r1")
    /\ res["r1"].quietDays = 0
    /\ res["r1"].closed = <<>>
    /\ StaleOpen(store, now - TicksPerDay) # {}

----------------------------------------------------------------------------
(* C20  Best-effort tracking per job                                       *)

\* the entries of the log of run() that stand for failed jobs
JobEntries(log) == SelectSeq(log, LAMBDA e : e \notin {"swept", "sweep warning"})

\* C20: when the upsert of a failed job throws, run() only warns: it goes on
\* with the job after it and is not marked failed; when run() is done every
\* failed job has had its turn, each job with a hit through its upsert.
C20_BestEffort ==
    [][\A p \in Runs :
          /\ ( /\ run[p].pc \in UpsertCalls
               /\ run'[p].pc = "idle"
               /\ res'[p].kind = "error" )
             => /\ main'[p].pc = "jobs"
                /\ main'[p].jobs = Tail(main[p].jobs)
                /\ main'[p].log = Append(main[p].log, "warning")
          /\ ~main'[p].setFailed
          /\ main'[p].pc = "done" =>
                /\ main'[p].jobs = <<>>
                /\ Len(JobEntries(main'[p].log)) = Len(main'[p].all)
                /\ \A i \in DOMAIN main'[p].all :
                       (main'[p].all[i] = NoHit)
                           <=> (JobEntries(main'[p].log)[i] = "nohit")]_vars

\* the upsert of the first failed job threw, the upsert of the second
\* created its record, and run() is done
C20_Witness ==
    /\ main["r1"].pc = "done"
    /\ Len(main["r1"].all) = 2
    /\ main["r1"].log[1] = "warning"
    /\ main["r1"].log[2] = "created"
    /\ ~main["r1"].setFailed

----------------------------------------------------------------------------
(* C21  Calls of one run are serialized                                    *)

\* C21: within one execution of run() a call of the upsert or of the sweep
\* starts only when no call of that run is in progress and every earlier
\* failed job has had its turn (its upsert returned or threw, or it had no
\* hit); the upsert that starts is the one of the next job, and the sweep
\* starts only after the last job.
C21_Serialized ==
    [][used'.ops = used.ops + 1 =>
          \E p \in Runs :
              /\ run[p].pc = "idle"
              /\ run'[p].pc \in {"u_search", "s_search"}
              /\ \A q \in Runs \ {p} : run[q].pc = "idle" /\ run'[q] = run[q]
              /\ main[p].pc = "jobs"
              /\ Len(JobEntries(main[p].log))
                     = Len(main[p].all) - Len(main[p].jobs)
              /\ run'[p].pc = "u_search" =>
                     /\ main[p].jobs # <<>>
                     /\ run'[p].signature = Head(main[p].jobs)
              /\ run'[p].pc = "s_search" =>
                     /\ main[p].jobs = <<>>
                     /\ Len(JobEntries(main[p].log)) = Len(main[p].all)]_vars

\* run() over two failed jobs with a hit each: both upserts returned and the
\* sweep is in progress
C21_Witness ==
    /\ Len(main["r1"].all) = 2
    /\ Len(main["r1"].log) = 2
    /\ \A i \in 1..2 : main["r1"].log[i] \in {"created", "updated", "reopened"}
    /\ run["r1"].pc = "s_get"

----------------------------------------------------------------------------
(* C22  Step lookup                                                        *)

\* the positions of the boundaries at or before a line index
Preceding(stepStarts, lineIndex) ==
    {i \in DOMAIN stepStarts : stepStarts[i].idx <= lineIndex}

\* C22: over a boundary list sorted by line index, findStepForLineIndex
\* returns the name of the last boundary whose index is <= the query, and
\* "Unknown step" when the list is empty or the query lies before the first
\* boundary.
C22_StepLookup ==
    \A p \in Runs :
        res[p].op = "findStepForLineIndex" =>
            LET before == Preceding(conf.stepStarts, conf.lineIndex) IN
            res[p].name = IF before = {} THEN UnknownStep
                          ELSE conf.stepStarts[Cardinality(before)].name

\* C22, without the query before the first boundary: the last boundary at
\* or before the query when there is one, "Unknown step" for the empty list
C22_LastPreceding ==
    \A p \in Runs :
        res[p].op = "findStepForLineIndex" =>
            LET before == Preceding(conf.stepStarts, conf.lineIndex) IN
            /\ before # {} =>
                   res[p].name = conf.stepStarts[Cardinality(before)].name
            /\ conf.stepStarts = <<>> => res[p].name = UnknownStep
            /\ (before = {} /\ conf.stepStarts # <<>>) =>
                   res[p].name = conf.stepStarts[1].name

----------------------------------------------------------------------------
(* C23  Rule priority                                                      *)

\* the positions in the rules list of the rules that match some line
MatchingRules(lines, rules) ==
    {k \in DOMAIN rules : \E i \in DOMAIN lines : Test(rules[k].re, lines[i])}

\* the lowest element of a non-empty set of numbers
Lowest(S) == CHOOSE x \in S : \A y \in S : x <= y

Picked(p) == res[p].op = "pickFirstMeaningfulError"

\* C23: over the custom rules followed by the built-in rules, the category
\* of the hit is that of the first rule that matches any line, also when a
\* later rule matches an earlier line, and the line of the hit is the
\* lowest line that rule matches; so a custom rule that matches beats every
\* built-in rule.
C23_RulePriority ==
    \A p \in Runs :
        Picked(p) =>
            LET rules == RulesList(conf.customRules)
                matching == MatchingRules(conf.lines, rules)
            IN  matching # {} =>
                    LET first == Lowest(matching)
                        at == Lowest({i \in DOMAIN conf.lines :
                                         Test(rules[first].re, conf.lines[i])})
                    IN  /\ res[p].hit.rule = rules[first].name
                        /\ res[p].hit.lineIndex = at - 1
                        /\ res[p].hit.line = conf.lines[at]
                        /\ (\E k \in matching : k <= Len(conf.customRules))
                               => first <= Len(conf.customRules)

\* a built-in rule matches the first line and the custom rule matches only
\* the second line: the hit is the custom rule's, on the second line
C23_Witness ==
    /\ Picked("r1")
    /\ conf.lines = <<LineJsError, LineBuildFailed>>
    /\ conf.customRules = <<Custom("Deploy", <<"f","a","i","l","e","d">>)>>
    /\ res["r1"].hit.rule = "Deploy"
    /\ res["r1"].hit.lineIndex = 1

\* no custom rule; the last built-in rule matches the first line and an
\* earlier built-in rule matches the second line: the hit is on the second
C23_WitnessBuiltIn ==
    /\ Picked("r1")
    /\ conf.lines = <<LineJsError, LineTsError>>
    /\ conf.customRules = <<>>
    /\ res["r1"].hit.rule = "TypeScript"
    /\ res["r1"].hit.lineIndex = 1

----------------------------------------------------------------------------
(* C24  Excerpt bounds                                                     *)

IsHit(p) == Picked(p) /\ res[p].hit # NullHit

\* lines from..to of a log, indices from 0, both ends included
LinesOf(lines, from, to) == SubSeq(lines, from + 1, to + 1)

\* C24: for a hit at line index i in a log of n lines the excerpt is lines
\* max(0, i-2) through min(n-1, i+12), both included: 2 lines before through
\* 12 lines after the match, clipped to the log.
C24_ExcerptBounds ==
    \A p \in Runs :
        IsHit(p) =>
            LET i == res[p].hit.lineIndex
                n == Len(conf.lines)
            IN  res[p].hit.excerpt
                    = LinesOf(conf.lines, Max(0, i - 2), Min(n - 1, i + 12))

\* C24 with the end the slice has: lines max(0, i-2) through min(n-1, i+11)
C24_ExcerptAsSliced ==
    \A p \in Runs :
        IsHit(p) =>
            LET i == res[p].hit.lineIndex
                n == Len(conf.lines)
            IN  res[p].hit.excerpt
                    = LinesOf(conf.lines, Max(0, i - 2), Min(n - 1, i + 11))

----------------------------------------------------------------------------
(* C25  Generic fallback                                                   *)

\* the line contains one of the three words, in any case, anywhere
HasFailureWord(l) ==
    \E w \in {<<"e","r","r","o","r">>, <<"e","x","c","e","p","t","i","o","n">>,
              <<"f","a","i","l","e","d">>} : Includes(LowerOf(l), w)

\* C25: when no declared rule matches any line, the hit is of category
\* "Generic" on the lowest line that contains "error", "exception" or
\* "failed" (case-insensitive, as a substring) and is not a group, endgroup,
\* debug or notice annotation line; the result is null exactly when there
\* is no such line.
C25_GenericFallback ==
    \A p \in Runs :
        (Picked(p) /\ MatchingRules(conf.lines, RulesList(conf.customRules)) = {})
            => LET cand == {i \in DOMAIN conf.lines :
                               HasFailureWord(conf.lines[i])
                                   /\ ~IsAnnotation(conf.lines[i])}
               IN  IF cand = {} THEN res[p].hit = NullHit
                   ELSE /\ res[p].hit.rule = "Generic"
                        /\ res[p].hit.lineIndex = Lowest(cand) - 1

\* C25 with "error" as a word of its own (\berror\b): "errors" and
\* "myerror" do not count
C25_ErrorAsWord ==
    \A p \in Runs :
        (Picked(p) /\ MatchingRules(conf.lines, RulesList(conf.customRules)) = {})
            => LET cand == {i \in DOMAIN conf.lines :
                               /\ \/ WordMatch(LowerOf(conf.lines[i]), <<"e","r","r","o","r">>)
                                  \/ Includes(LowerOf(conf.lines[i]),
                                              <<"e","x","c","e","p","t","i","o","n">>)
                                  \/ Includes(LowerOf(conf.lines[i]),
                                              <<"f","a","i","l","e","d">>)
                               /\ ~IsAnnotation(conf.lines[i])}
               IN  IF cand = {} THEN res[p].hit = NullHit
                   ELSE /\ res[p].hit.rule = "Generic"
                        /\ res[p].hit.lineIndex = Lowest(cand) - 1

----------------------------------------------------------------------------
(* C26  Malformed custom rules are filtered                                *)

Parsed(p) == res[p].op = "parseCustomRules"

\* an entry that can be used: an object with a name and a pattern that
\* compiles
WellFormed(r) ==
    r.t = "object" /\ Truthy(r.name) /\ Truthy(r.pattern)
        /\ ~RegExpThrows(r.pattern.str)

RulesOf(items) ==
    LET kept == SelectSeq(items, WellFormed)
    IN  [i \in DOMAIN kept |-> MapEntry(kept[i])]

\* C26: parseCustomRules never throws; input that is not a list yields no
\* rules; from a list the entries without a name or a pattern, and those
\* that cannot be used otherwise, are dropped and every well-formed entry is
\* kept, in its original order.
C26_FilteredNotFatal ==
    \A p \in Runs :
        Parsed(p) =>
            /\ ~res[p].out.threw
            /\ res[p].out.rules =
                   IF conf.raw.t = "json list" THEN RulesOf(conf.raw.items)
                   ELSE <<>>

\* C26 as the code has it: never a throw; a list with a null element, or
\* with a named entry whose pattern does not compile, yields no rules at
\* all; any other list yields its well-formed entries, in order
C26_AllOrNothing ==
    \A p \in Runs :
        Parsed(p) =>
            /\ ~res[p].out.threw
            /\ res[p].out.rules =
                   IF /\ conf.raw.t = "json list"
                      /\ \A i \in DOMAIN conf.raw.items :
                             /\ conf.raw.items[i].t # "null"
                             /\ FilterKeeps(conf.raw.items[i])
                                    => ~RegExpThrows(conf.raw.items[i].pattern.str)
                   THEN RulesOf(conf.raw.items)
                   ELSE <<>>

----------------------------------------------------------------------------
(* C27  Normalizer idempotence                                             *)

Normalized(p) == res[p].op = "normalize"

\* C27: normalize(normalize(x)) = normalize(x) for every input string x.
C27_Idempotent ==
    \A p \in Runs : Normalized(p) => res[p].twice = res[p].once

\* C27 for the inputs whose normal form holds no run of 40 hash characters
C27_IdempotentOnShortTokens ==
    \A p \in Runs :
        (Normalized(p) /\ ~Includes(res[p].once, PieceLongHash))
            => res[p].twice = res[p].once

----------------------------------------------------------------------------
(* C28  Signature identity                                                 *)

Signed(p) == res[p].op = "signature"

SameHit(a, b) == a.rule = b.rule /\ normalize(a.line) = normalize(b.line)

\* C28: two hits have the same signature if and only if their categories
\* are equal and their normalized lines are equal, whatever name a built-in
\* or a custom rule carries, names with ": " in them included.
C28_SignatureIdentity ==
    \A p \in Runs :
        Signed(p) => ((res[p].a = res[p].b) <=> SameHit(conf.a, conf.b))

\* C28 for categories without ": " in them; and in any case hits of the
\* same category with the same normalized line have the same signature
C28_IdentityOffSeparator ==
    \A p \in Runs :
        Signed(p) =>
            /\ SameHit(conf.a, conf.b) => res[p].a = res[p].b
            /\ ( /\ ~Includes(conf.a.rule, <<":", " ">>)
                 /\ ~Includes(conf.b.rule, <<":", " ">>) )
                   => ((res[p].a = res[p].b) <=> SameHit(conf.a, conf.b))

----------------------------------------------------------------------------
(* C29  Single stats line                                                  *)

PositionsOf(lines, kind) == {i \in DOMAIN lines : lines[i].kind = kind}

\* C29: after any sequence of sequential upserts the body of a record has
\* at most one "**Last 7d:** n | **Last 14d:** n" line, and it is above
\* the "## Occurrences" heading; after an update the two numbers of the
\* line are the last7 and last14 that the update computed.
C29_SingleStatsLine ==
    \A p \in Runs :
        res[p].op = "body" =>
            LET lines == res[p].lines
                at == PositionsOf(lines, "stats")
            IN  /\ Cardinality(at) <= 1
                /\ \A i \in at : \E h \in PositionsOf(lines, "heading") : i < h
                /\ res[p].kind = "updated" =>
                       /\ Cardinality(at) = 1
                       /\ \A i \in at :
                              /\ lines[i].last7 = res[p].stats.last7
                              /\ lines[i].last14 = res[p].stats.last14

\* a body with a stale stats line was updated three times, a day apart:
\* one stats line, and its numbers have changed
C29_Witness ==
    /\ conf.start = TextOf(BusyText)
    /\ res["r1"].op = "body"
    /\ used.ops = MaxOps
    /\ now > 0
    /\ Cardinality(PositionsOf(res["r1"].lines, "stats")) = 1
    /\ res["r1"].stats.last7 < res["r1"].stats.last14
    /\ res["r1"].stats.last7 # HighRecentCount - 1

\* the text operations do to the text what the body operations of the
\* model do to the body
C29_TextRefinesBody ==
    [][\A p \in Runs :
          (res'[p] # res[p] /\ res'[p].op = "body" /\ res'[p].kind = "updated") =>
              LET old == IF res[p] = NoRes THEN conf.start.lines ELSE res[p].lines
                  line == res'[p].lines[FirstOf(res'[p].lines, "heading") + 1]
                  occ == [when |-> line.when, runUrl |-> line.runUrl,
                          muted |-> line.kind = "muted bullet"]
              IN  BodyOf(res'[p].lines)
                      = appendStatsLine(InsertOccurrence(BodyOf(old), occ),
                                        res'[p].stats)]_vars

----------------------------------------------------------------------------
(* C30  Step boundaries                                                    *)

Built(p) == res[p].op = "buildStepIndex"

\* the boundaries are in strictly increasing line index, within the log
Increasing(stepStarts, n) ==
    /\ \A k \in DOMAIN stepStarts : stepStarts[k].idx \in 0..(n - 1)
    /\ \A k \in 1..(Len(stepStarts) - 1) : stepStarts[k].idx < stepStarts[k + 1].idx

\* the names of the boundaries at line index i
NamesAt(stepStarts, i) ==
    {stepStarts[k].name : k \in {j \in DOMAIN stepStarts : stepStarts[j].idx = i}}

\* the name of the generic group that a line opens
GenericName(l) == Trim(groupName(l).group)

\* what the three forms, tried in order, make of a line: the set of names,
\* one or none, given whether the name of a generic group is left out
FormNames(l, leftOut) ==
    IF groupStep(l).matched THEN {Trim(groupStep(l).group)}
    ELSE IF groupRun(l).matched THEN {<<"R","u","n"," ">> \o Trim(groupRun(l).group)}
    ELSE IF groupName(l).matched /\ GenericName(l) # <<>> /\ ~leftOut
    THEN {GenericName(l)}
    ELSE {}

\* C30: buildStepIndex emits at most one boundary per log line, in strictly
\* increasing line index; it tries the "Step:" form, then the "Run" form
\* (name "Run " + command), then the generic named group, and it emits no
\* boundary for a generic group whose name starts with "Post" or
\* "Cleaning up".
C30_StepBoundaries ==
    \A p \in Runs :
        Built(p) =>
            /\ Increasing(res[p].stepStarts, Len(conf.lines))
            /\ \A i \in DOMAIN conf.lines :
                   LET l == conf.lines[i]
                       names == NamesAt(res[p].stepStarts, i - 1)
                       startsWith == \/ MatchesAt(GenericName(l), 1, WordPost)
                                     \/ MatchesAt(GenericName(l), 1, WordCleaningUp)
                   IN  IF groupStep(l).matched \/ groupRun(l).matched
                       THEN names = FormNames(l, FALSE)
                       ELSE /\ names \subseteq FormNames(l, FALSE)
                            /\ startsWith => names = {}

\* C30 with the names left out being those that start with the word "Post"
\* or the words "Cleaning up", in any case, with a word boundary behind
C30_WholeWords ==
    \A p \in Runs :
        Built(p) =>
            /\ Increasing(res[p].stepStarts, Len(conf.lines))
            /\ \A i \in DOMAIN conf.lines :
                   NamesAt(res[p].stepStarts, i - 1)
                       = FormNames(conf.lines[i],
                                   \/ StartsWithWord(GenericName(conf.lines[i]), WordPost)
                                   \/ StartsWithWord(GenericName(conf.lines[i]),
                                                     WordCleaningUp))

----------------------------------------------------------------------------
(* C31  Record uniqueness under overlap                                    *)

\* C31: in every reachable state, also when the upserts of two overlapping
\* runs interleave their search and create calls, a fingerprint that had no
\* record filed before the upserts has at most one record.
C31_UniqueUnderOverlap ==
    \A sig \in Signatures :
        ~FiledBefore(sig) => Cardinality(RecordsOf(sig)) <= 1

\* both runs are at issues.create for one fingerprint without a record: each
\* search came back empty before the other run created anything
C31_BothAtCreate ==
    \E sig \in Signatures :
        /\ RecordsOf(sig) = {}
        /\ \A p \in Runs : run[p].pc = "u_create" /\ run[p].signature = sig

----------------------------------------------------------------------------
(* C32  Severity label exclusivity in every state                          *)

\* the "severity:" labels that record n carries
SeverityLabelsOf(n) == store[n].labels \cap SeverityLabels

\* C32: no record carries two "severity:" labels in any reachable state (the
\* records start with one): not between the calls of the list/remove/add
\* reconcile, not after a store failure in the middle of it, and not when
\* two overlapping upserts reconcile towards different severities.
C32_NeverTwoSeverityLabels ==
    \A n \in Numbers : Cardinality(SeverityLabelsOf(n)) <= 1

----------------------------------------------------------------------------
(* C33  Closure is annotated first                                         *)

\* the record the sweep of p is at
SweepItem(p) == run[p].items[run[p].idx]

\* the closure comment that the sweep of p posts on the record it is at
ClosureComment(p) ==
    [kind |-> "closing", daysSince |-> run[p].daysSince, fixing |-> run[p].fixing]

\* the step in which the sweep of p closes a record: the last comment of the
\* record is the closure comment of this sweep
ClosesAnnotated(p) ==
    (run[p].pc = "s_update" /\ run'[p] # run[p]
        /\ store'[SweepItem(p)].state = "closed") =>
        LET comments == store[SweepItem(p)].comments
        IN  /\ comments # <<>>
            /\ comments[Len(comments)] = ClosureComment(p)

\* the step in which the sweep of p posts a closure comment: the sweep has
\* not been at this record before
CommentsOnce(p) ==
    (run[p].pc = "s_comment" /\ run'[p].pc = "s_update") =>
        /\ store'[SweepItem(p)].comments
               = Append(store[SweepItem(p)].comments, ClosureComment(p))
        /\ \A j \in 1..(run[p].idx - 1) : run[p].items[j] # SweepItem(p)

\* C33: a record that the sweep closes had its closure comment posted
\* earlier in the same pass of the loop, a sweep posts at most one closure
\* comment per record, and, with store failures possible between the
\* comment and the update, a sweep that has posted the closure comment of a
\* record ends with that record closed.
C33_ClosureAnnotatedFirst ==
    [][\A p \in Runs :
          /\ ClosesAnnotated(p)
          /\ CommentsOnce(p)
          /\ (run[p].pc = "s_update" /\ run'[p].pc = "idle") =>
                 store'[SweepItem(p)].state = "closed"]_vars

\* C33 without its last part: the comment comes before the closure, once
\* per record and sweep
C33_CommentBeforeClose ==
    [][\A p \in Runs : ClosesAnnotated(p) /\ CommentsOnce(p)]_vars

\* a record that no upsert has written to, that two sweeps have annotated
\* and one has closed: the first sweep failed between its comment and its
\* update
C33_AnnotatedTwice ==
    \E n \in Numbers :
        /\ store[n].state = "closed"
        /\ NewBullets(store[n].body.occ) = {}
        /\ Len(store[n].comments) = 2
        /\ \A i \in DOMAIN store[n].comments : store[n].comments[i].kind = "closing"

====
